---------------------------- MODULE Spec2Model ----------------------------
(***************************************************************************)
(* Model of the VirusTotal scanner client (macOS-virus-check):             *)
(*   src/src/vt_scanner.py   VirusTotalScanner (check_hash, upload_file,   *)
(*                           get_analysis, scan_file, parse_results)       *)
(*   src/src/config.py       Config (the per-hash result cache)            *)
(*   src/src/cli.py          the scan command                              *)
(*   src/automator/vt_quick_action.py   the quick-action entry point       *)
(*                                                                         *)
(* Specifications:                                                         *)
(*   Spec / FairSpec   one call of scan_file or get_analysis, one remote   *)
(*                     request or sleep per step, with a clock             *)
(*   SpecParse         parse_results applied to bounded payloads           *)
(*   SpecCache         stores, lookups and clears of the result cache,     *)
(*                     each as a whole, with a clock                       *)
(*   SpecCli           scans of single files by the scan command and the   *)
(*                     quick action over one cache directory: the cache    *)
(*                     lookup is one step and the return of scan_file,     *)
(*                     after its sleeps, another; two invocations overlap  *)
(*   SpecConc          two invocations running cache operations on one     *)
(*                     cache directory, one system call per step           *)
(*   SpecBatch         one run of the scan command over a batch of files,  *)
(*                     with other invocations acting while it waits        *)
(*   SpecConfig        the credential and the settings set and read, and   *)
(*                     the modes of the files the program writes           *)
(*   SpecRace          one scan of a file, one read of the file per step,  *)
(*                     while another process rewrites the file             *)
(***************************************************************************)
EXTENDS Integers, Sequences, FiniteSets, TLC

VARIABLES
    \* ---- one call of scan_file / get_analysis (Spec, FairSpec) ----
    pc,            \* position: "idle", "check_hash", "get_upload_url",
                   \*   "post_file", "poll", "sleep", "done", or "blocked"
                   \*   (inside a request that never answers)
    mode,          \* entry point called: "scan_file" or "get_analysis"
    force,         \* scan_file's force_upload
    fsize,         \* file_path.stat().st_size
    wait,          \* get_analysis's wait
    max_wait,      \* get_analysis's max_wait
    elapsed,       \* time.time() - start_time, in seconds
    uploadUrl,     \* url the file is posted to (upload_file's local url)
    analysis_id,   \* handle returned by upload_file
    result,        \* what the call returned or raised
    lookupResp,    \* the response check_hash received
    reqs,          \* count of requests answered (returned or raised), per
                   \*   kind, capped at MaxReqCount
    firstReq,      \* kind of the first request of the call
    postedTo,      \* url that received the file bytes
    polledIds,     \* handles that were polled
    completedAt,   \* elapsed time when a "completed" poll response arrived
    completedBody, \* the payload of that response
    pollFault,     \* a poll raised before a status was read
    pollsAfter,    \* polls issued after a "completed" response arrived
    \* ---- parse_results on its own (SpecParse) ----
    pin, pout,     \* the payload given to parse_results, and its result
    \* ---- the result cache (SpecCache) ----
    files,         \* the cache directory: path -> [exists, mtime, text]
    now,           \* time.time(), in seconds
    lastStore,     \* per hash, the most recent cache_result call on it,
                   \*   when it wrote its file
    lastOp,        \* the get_cached_result call just made, if any
    \* ---- the scan command and the quick action (SpecCli) ----
    cli,           \* the scan of one file just made, if any
    pend,          \* per invocation, the scan that has looked the file up in
                   \*   the cache and is busy with the remote service
    scans,         \* how many scans the invocations have begun
    \* ---- invocations sharing the cache directory (SpecConc) ----
    proc,          \* each invocation's cache operation and its position in it
    ops,           \* how many cache operations the invocations have begun
    gen,           \* per path, how many times it has been unlinked
    orphans,       \* per path, the text of each file unlinked from it, oldest first
    storedFull,    \* per hash, the payloads some cache_result call wrote in full
    touched,       \* per hash, whether any operation was aimed at its entry
    \* ---- one run of the scan command over a batch of files (SpecBatch) ----
    cmd,           \* the command's inputs, position, results and exit status
    \* ---- the configuration record and file permissions (SpecConfig) ----
    osenv,         \* the value of VT_API_KEY, Null when unset
    umask,         \* the process's file mode creation mask
    cfg,           \* config.json: [exists, mode, text]
    setop,         \* the set_api_key / set_setting call in progress
    lastGet,       \* the get_api_key / is_configured call just made
    fmode,         \* per cache path, the mode of the file (0 when absent)
    \* ---- one scan of a file that another process rewrites (SpecRace) ----
    job            \* the file's content, the scan's position and what it read

scanVars == <<pc, mode, force, fsize, wait, max_wait, elapsed, uploadUrl,
              analysis_id, result, lookupResp, reqs, firstReq, postedTo,
              polledIds, completedAt, completedBody, pollFault, pollsAfter>>

parseVars == <<pin, pout>>

cacheVars == <<files, now, lastStore, lastOp>>

cliVars == <<cli, pend, scans>>

concVars == <<proc, ops, gen, orphans, storedFull, touched>>

batchVars == <<cmd>>

confVars == <<osenv, umask, cfg, setop, lastGet, fmode>>

raceVars == <<job>>

\* what each specification leaves alone
nonScanVars == <<parseVars, cacheVars, cliVars, concVars, batchVars, confVars,
    raceVars>>
nonParseVars == <<scanVars, cacheVars, cliVars, concVars, batchVars, confVars,
    raceVars>>
nonCacheVars == <<scanVars, parseVars, cliVars, concVars, batchVars, confVars,
    raceVars>>
nonCliVars == <<scanVars, parseVars, concVars, batchVars, confVars,
    raceVars>>
nonConcVars == <<scanVars, parseVars, cliVars, lastStore, lastOp, batchVars, confVars,
    raceVars>>
nonBatchVars == <<scanVars, parseVars, cliVars, concVars, lastOp, confVars,
    raceVars>>
nonConfVars == <<scanVars, parseVars, cliVars, concVars, batchVars, now, lastOp,
    raceVars>>
nonRaceVars == <<scanVars, parseVars, cliVars, concVars, batchVars, confVars,
    lastOp>>

vars ==
    <<scanVars, parseVars, cacheVars, cliVars, concVars, batchVars, confVars,
      raceVars>>

(***************************************************************************)
(* JSON values, as the json module hands them to the program: objects      *)
(* (dict), numbers, strings and null, each tagged with its kind.           *)
(***************************************************************************)
Num(n) == [k |-> "num", v |-> n]
Str(s) == [k |-> "str", v |-> s]
Null == [k |-> "null", v |-> 0]
Obj(f) == [k |-> "obj", v |-> f]
EmptyObj == Obj(<<>>)

IsObj(x) == x.k = "obj"
IsNum(x) == x.k = "num"

\* `key in d` / d[key] succeeds
Has(x, key) == IsObj(x) /\ key \in DOMAIN x.v

\* d.get(key, default) on a dict d
DictGet(x, key, default) == IF key \in DOMAIN x.v THEN x.v[key] ELSE default

\* Python truthiness of a JSON value (`if existing_data:`, `if cached:`)
Truthy(x) ==
    CASE x.k = "obj" -> DOMAIN x.v # {}
      [] x.k = "num" -> x.v # 0
      [] x.k = "str" -> x.v # ""
      [] OTHER -> FALSE

(***************************************************************************)
(* parse_results (vt_scanner.py 198-264).  The result is a record; ok is   *)
(* FALSE when the function raises, err naming the exception:               *)
(*   "parse"     the wrapped KeyError / TypeError of line 264              *)
(*   "attribute" an AttributeError (.get on a non-dict), which the except  *)
(*               clause of line 263 does not catch                         *)
(***************************************************************************)
PermalinkPrefix == "https://www.virustotal.com/gui/file/"

NoSummary(e) ==
    [ok |-> FALSE, err |-> e, threat_level |-> "", color |-> "",
     detections |-> 0, suspicious |-> 0, total_scans |-> 0,
     sha256 |-> Null, last_analysis_date |-> Null,
     permalink |-> <<>>, raw_stats |-> Null]

\* lines 223-232
ThreatLevel(malicious, suspicious) ==
    IF malicious > 0 THEN "MALICIOUS"
    ELSE IF suspicious > 0 THEN "SUSPICIOUS"
    ELSE "CLEAN"

ThreatColor(level) ==
    CASE level = "MALICIOUS" -> "red"
      [] level = "SUSPICIOUS" -> "yellow"
      [] OTHER -> "green"

\* lines 210-214: stats = attrs.get("stats", {}), replaced by
\* attrs["last_analysis_stats"] when that key is present
SelectStatsLiveFirst(attrs) ==
    IF "stats" \in DOMAIN attrs.v
    THEN attrs.v["stats"]
    ELSE DictGet(attrs, "last_analysis_stats", EmptyObj)

SelectStats(attrs) ==
    IF "last_analysis_stats" \in DOMAIN attrs.v
    THEN attrs.v["last_analysis_stats"]
    ELSE DictGet(attrs, "stats", EmptyObj)

\* lines 244-246
LastAnalysis(attrs) ==
    LET d == DictGet(attrs, "last_analysis_date", Null)
    IN  IF ~Truthy(d) THEN DictGet(attrs, "date", Null) ELSE d

\* line 221, for counts that are numbers
TotalScansCountsTimeout(stats) ==
    DictGet(stats, "malicious", Num(0)).v + DictGet(stats, "suspicious", Num(0)).v
    + DictGet(stats, "undetected", Num(0)).v + DictGet(stats, "harmless", Num(0)).v
    + DictGet(stats, "timeout", Num(0)).v

TotalScans(stats) ==
    DictGet(stats, "malicious", Num(0)).v + DictGet(stats, "suspicious", Num(0)).v
    + DictGet(stats, "undetected", Num(0)).v + DictGet(stats, "harmless", Num(0)).v

ParseResults(d) ==
    IF ~Has(d, "data") THEN NoSummary("parse")
    ELSE IF ~Has(d.v["data"], "attributes") THEN NoSummary("parse")
    ELSE
      LET attrs == d.v["data"].v["attributes"] IN
      IF ~IsObj(attrs) THEN NoSummary("attribute")
      ELSE
        LET stats == SelectStats(attrs) IN
        IF ~IsObj(stats) THEN NoSummary("attribute")
        ELSE
          LET malicious  == DictGet(stats, "malicious", Num(0))
              suspicious == DictGet(stats, "suspicious", Num(0))
              undetected == DictGet(stats, "undetected", Num(0))
              harmless   == DictGet(stats, "harmless", Num(0))
          IN
          IF ~(IsNum(malicious) /\ IsNum(suspicious)
               /\ IsNum(undetected) /\ IsNum(harmless))
          THEN NoSummary("parse")
          ELSE
            LET level == ThreatLevel(malicious.v, suspicious.v)
                sha == DictGet(attrs, "sha256", Str("N/A"))
            IN
            [ok |-> TRUE, err |-> "", threat_level |-> level,
             color |-> ThreatColor(level),
             detections |-> malicious.v, suspicious |-> suspicious.v,
             total_scans |-> TotalScans(stats),
             sha256 |-> sha, last_analysis_date |-> LastAnalysis(attrs),
             permalink |-> <<PermalinkPrefix, sha>>, raw_stats |-> stats]

(***************************************************************************)
(* Bounds of the model.                                                    *)
(***************************************************************************)
\* longest time one request takes, in seconds
MaxLatency == 1
\* request counters stop counting here
MaxReqCount == 2

(***************************************************************************)
(* The remote service.  A response is [status, body]; status TransportError*)
(* stands for requests raising before any response (connection failure).   *)
(***************************************************************************)
TransportError == 0
NoResp == [status |-> -1, body |-> Null]

StatsObj(m, s, u, h) ==
    Obj([malicious |-> Num(m), suspicious |-> Num(s),
         undetected |-> Num(u), harmless |-> Num(h)])

\* the "analysis" shape: GET /analyses/{id}
AnalysisBody(id, status, stats) ==
    Obj([data |-> Obj([id |-> Str(id),
                       attributes |-> Obj([status |-> Str(status),
                                           stats |-> stats])])])

\* the "file report" shape: GET /files/{hash}
ReportBody(sha, stats) ==
    Obj([data |-> Obj([id |-> Str(sha),
                       attributes |-> Obj([sha256 |-> Str(sha),
                                           last_analysis_stats |-> stats])])])

HttpStatuses == {200, 204, 304, 401, 404, 429, 500}

AnalysisIds == {"a1", "a2"}
UploadTargets == {"u1"}
DefaultUploadUrl == "BASE_URL/files"

LookupBodies ==
    {ReportBody("h1", StatsObj(0, 0, 2, 1)), ReportBody("h1", StatsObj(1, 0, 2, 0)),
     EmptyObj}

LookupResponses ==
    {[status |-> TransportError, body |-> Null]}
    \cup {[status |-> 200, body |-> b] : b \in LookupBodies}
    \cup {[status |-> c, body |-> Null] : c \in HttpStatuses \ {200}}

UploadUrlResponses ==
    {[status |-> TransportError, body |-> Null], [status |-> 500, body |-> Null],
     [status |-> 200, body |-> EmptyObj]}
    \cup {[status |-> 200, body |-> Obj([data |-> Str(u)])] : u \in UploadTargets}

PostResponses ==
    {[status |-> TransportError, body |-> Null], [status |-> 500, body |-> Null],
     [status |-> 200, body |-> EmptyObj]}
    \cup {[status |-> 200, body |-> Obj([data |-> Obj([id |-> Str(a)])])] :
             a \in AnalysisIds}

PollBodies(id) ==
    {AnalysisBody(id, "queued", EmptyObj),
     AnalysisBody(id, "in-progress", EmptyObj),
     AnalysisBody(id, "completed", StatsObj(0, 0, 2, 1)),
     AnalysisBody(id, "completed", StatsObj(1, 1, 1, 0)),
     EmptyObj}

PollResponses(id) ==
    {[status |-> TransportError, body |-> Null], [status |-> 500, body |-> Null]}
    \cup {[status |-> 200, body |-> b] : b \in PollBodies(id)}

(***************************************************************************)
(* vt_scanner.py, one call.  A call ends with a result: what it returned   *)
(* (data, uploaded) or the exception it raised (err).                      *)
(***************************************************************************)
NoResult == [kind |-> "none", data |-> Null, uploaded |-> FALSE, err |-> ""]
Return(d, u) == [kind |-> "return", data |-> d, uploaded |-> u, err |-> ""]
Raise(e) == [kind |-> "raise", data |-> Null, uploaded |-> FALSE, err |-> e]

\* requests' Response.raise_for_status: raises for 4xx and 5xx only
RaisesForStatus(code) == code >= 400 /\ code < 600

\* check_hash (lines 61-74): the data, None (Null), or the wrapped exception
CheckHashNo404(resp) ==
    IF resp.status = TransportError THEN Raise("Error checking hash")
    ELSE IF resp.status = 200 THEN Return(resp.body, FALSE)
    ELSE IF RaisesForStatus(resp.status) THEN Raise("Error checking hash")
    ELSE Return(Null, FALSE)

CheckHash(resp) ==
    IF resp.status = TransportError THEN Raise("Error checking hash")
    ELSE IF resp.status = 200 THEN Return(resp.body, FALSE)
    ELSE IF resp.status = 404 THEN Return(Null, FALSE)
    ELSE IF RaisesForStatus(resp.status) THEN Raise("Error checking hash")
    ELSE Return(Null, FALSE)

\* scan_file line 187: `if existing_data:`
ExistingData(existing) == Truthy(existing)

\* upload_file lines 89-94
MaxUploadSize == 32 * 1024 * 1024
NeedsUploadUrlAtLimit(size) == size >= MaxUploadSize

NeedsUploadUrl(size) == size > MaxUploadSize
UploadPc(size) == IF NeedsUploadUrl(size) THEN "get_upload_url" ELSE "post_file"

\* _get_upload_url (lines 116-123): response.json()["data"]
GetUploadUrl(resp) ==
    IF resp.status = TransportError \/ RaisesForStatus(resp.status)
    THEN Raise("Error getting upload URL")
    ELSE IF ~Has(resp.body, "data") THEN Raise("KeyError")
    ELSE Return(resp.body.v["data"], FALSE)

\* upload_file lines 96-112: data["data"]["id"]
PostFile(resp) ==
    IF resp.status = TransportError \/ RaisesForStatus(resp.status)
    THEN Raise("Error uploading file")
    ELSE IF ~(Has(resp.body, "data") /\ Has(resp.body.v["data"], "id"))
    THEN Raise("KeyError")
    ELSE Return(resp.body.v["data"].v["id"], FALSE)

\* get_analysis line 147: data["data"]["attributes"]["status"]
HasStatus(d) ==
    /\ Has(d, "data")
    /\ Has(d.v["data"], "attributes")
    /\ Has(d.v["data"].v["attributes"], "status")
StatusOf(d) == d.v["data"].v["attributes"].v["status"].v

DefaultMaxWait == 300
SleepSeconds == 5
TimeoutError == "Analysis timeout - file is still being processed"

\* get_analysis lines 149-160, once the status is read at elapsed time t
PollDecisionSilent(status, w, t, mw) ==
    IF status = "completed" THEN "return"
    ELSE IF ~w THEN "return"
    ELSE IF t > mw THEN "return"
    ELSE "sleep"

PollDecisionMissed(status, w, t, mw) ==
    IF status = "Completed" THEN "return"
    ELSE IF ~w THEN "return"
    ELSE IF t > mw THEN "timeout"
    ELSE "sleep"

PollDecision(status, w, t, mw) ==
    IF status = "completed" THEN "return"
    ELSE IF ~w THEN "return"
    ELSE IF t > mw THEN "timeout"
    ELSE "sleep"

\* get_analysis lines 142-163: one turn of the loop, the response in hand
PollTurn(resp, w, t, mw) ==
    IF resp.status = TransportError \/ RaisesForStatus(resp.status)
    THEN [act |-> "raise", err |-> "Error getting analysis"]
    ELSE IF ~HasStatus(resp.body) THEN [act |-> "raise", err |-> "KeyError"]
    ELSE LET dec == PollDecision(StatusOf(resp.body), w, t, mw) IN
         IF dec = "timeout" THEN [act |-> "raise", err |-> TimeoutError]
         ELSE [act |-> dec, err |-> ""]

(***************************************************************************)
(* json.dump / json.load (config.py 189, 205).  The text of a cache file   *)
(* is a sequence of tokens: punctuation, quoted strings, numbers, null.    *)
(***************************************************************************)
Tok(t, v) == [t |-> t, v |-> v]
LBrace == Tok("{", 0)
RBrace == Tok("}", 0)
Colon == Tok(":", 0)
Comma == Tok(",", 0)

\* the order in which keys are written (a dict keeps its insertion order;
\* the order does not change the value read back)
KeyOrder == <<"data", "id", "attributes", "status", "sha256", "stats",
              "last_analysis_stats", "malicious", "suspicious", "undetected",
              "harmless", "timeout", "api_key", "notifications">>
KeysOf(f) == SelectSeq(KeyOrder, LAMBDA key : key \in DOMAIN f)

RECURSIVE JsonDump(_)
RECURSIVE DumpMembers(_, _)
DumpMembers(f, keys) ==
    IF keys = <<>> THEN <<>>
    ELSE <<Tok("str", Head(keys)), Colon>> \o JsonDump(f[Head(keys)])
         \o (IF Len(keys) > 1 THEN <<Comma>> ELSE <<>>)
         \o DumpMembers(f, Tail(keys))
JsonDump(x) ==
    CASE x.k = "obj" -> <<LBrace>> \o DumpMembers(x.v, KeysOf(x.v)) \o <<RBrace>>
      [] x.k = "num" -> <<Tok("num", x.v)>>
      [] x.k = "str" -> <<Tok("str", x.v)>>
      [] OTHER -> <<Tok("null", 0)>>

\* the parser: [ok, val, next], next the index after the value read
ParseOk(val, next) == [ok |-> TRUE, val |-> val, next |-> next]
DecodeError == [ok |-> FALSE, val |-> Null, next |-> 0]

RECURSIVE ParseValue(_, _)
RECURSIVE ParseMembers(_, _, _)
\* after "{" or ",": a member `"key" : value`, then "," or "}"
ParseMembers(toks, i, acc) ==
    IF i + 1 > Len(toks) \/ toks[i].t # "str" \/ toks[i + 1].t # ":"
    THEN DecodeError
    ELSE LET val == ParseValue(toks, i + 2) IN
         IF ~val.ok \/ val.next > Len(toks) THEN DecodeError
         ELSE LET acc2 == [key \in DOMAIN acc \cup {toks[i].v} |->
                              IF key = toks[i].v THEN val.val ELSE acc[key]]
              IN  CASE toks[val.next].t = "," -> ParseMembers(toks, val.next + 1, acc2)
                    [] toks[val.next].t = "}" -> ParseOk(Obj(acc2), val.next + 1)
                    [] OTHER -> DecodeError
ParseValue(toks, i) ==
    IF i > Len(toks) THEN DecodeError
    ELSE CASE toks[i].t = "num" -> ParseOk(Num(toks[i].v), i + 1)
           [] toks[i].t = "str" -> ParseOk(Str(toks[i].v), i + 1)
           [] toks[i].t = "null" -> ParseOk(Null, i + 1)
           [] toks[i].t = "{" ->
                IF i + 1 <= Len(toks) /\ toks[i + 1].t = "}"
                THEN ParseOk(EmptyObj, i + 2)
                ELSE ParseMembers(toks, i + 1, <<>>)
           [] OTHER -> DecodeError

\* json.load: the whole text must be one value (else JSONDecodeError)
JsonLoad(toks) ==
    LET r == ParseValue(toks, 1) IN
    IF r.ok /\ r.next = Len(toks) + 1 THEN r ELSE DecodeError

(***************************************************************************)
(* The result cache (config.py 148-225): one file per hash in cache_dir.   *)
(***************************************************************************)
Hashes == {"h1", "h2"}

\* get_cache_path (line 158)
GetCachePathShared(h) == <<"cache_dir", "h1", ".json">>

GetCachePath(h) == <<"cache_dir", h, ".json">>

CachePaths == {<<"cache_dir", h, ".json">> : h \in Hashes}

NoFile == [exists |-> FALSE, mtime |-> 0, text |-> <<>>]
File(t, text) == [exists |-> TRUE, mtime |-> t, text |-> text]
EmptyDir == [path \in CachePaths |-> NoFile]

DefaultMaxAgeDays == 7
MaxAgeSecondsDoubled(max_age_days) == 2 * max_age_days * 24 * 60 * 60

MaxAgeSeconds(max_age_days) == max_age_days * 24 * 60 * 60

\* tokens written by one flush of the file buffer
BlockTokens == 8
\* a write that fails has written at most this many blocks
MaxKept == 1

NoFault == [kind |-> "none", kept |-> 0]
StoreFaults ==
    {NoFault, [kind |-> "open", kept |-> 0]}
    \cup {[kind |-> "write", kept |-> n] : n \in 0..MaxKept}

Min(a, b) == IF a < b THEN a ELSE b
\* what a failed write leaves: a proper prefix of the text
Truncated(text, blocks) == SubSeq(text, 1, Min(blocks * BlockTokens, Len(text) - 1))

\* get_cached_result (lines 160-191) at time t: [ret, fs], ret Null for None
GetCachedResultKeepsStale(fs, h, t, max_age_days, readFails) ==
    LET path == GetCachePath(h)
        f == fs[path]
    IN  IF ~f.exists THEN [ret |-> Null, fs |-> fs]
        ELSE IF t - f.mtime > MaxAgeSeconds(max_age_days)
        THEN [ret |-> Null, fs |-> fs]
        ELSE IF readFails THEN [ret |-> Null, fs |-> fs]
        ELSE LET r == JsonLoad(f.text) IN
             [ret |-> IF r.ok THEN r.val ELSE Null, fs |-> fs]

GetCachedResult(fs, h, t, max_age_days, readFails) ==
    LET path == GetCachePath(h)
        f == fs[path]
    IN  IF ~f.exists THEN [ret |-> Null, fs |-> fs]
        ELSE IF t - f.mtime > MaxAgeSeconds(max_age_days)
        THEN [ret |-> Null, fs |-> [fs EXCEPT ![path] = NoFile]]
        ELSE IF readFails THEN [ret |-> Null, fs |-> fs]
        ELSE LET r == JsonLoad(f.text) IN
             [ret |-> IF r.ok THEN r.val ELSE Null, fs |-> fs]

\* cache_result (lines 193-208) at time t: the directory afterwards.  fault
\* is the IOError the call meets, if any: open() fails (nothing written) or
\* a write fails after `kept` blocks; either is swallowed (lines 206-208).
CacheResult(fs, h, payload, t, fault) ==
    LET path == GetCachePath(h)
        text == JsonDump(payload)
    IN  CASE fault.kind = "open" -> fs
          [] fault.kind = "write" ->
                [fs EXCEPT ![path] = File(t, Truncated(text, fault.kept))]
          [] OTHER -> [fs EXCEPT ![path] = File(t, text)]

\* clear_cache (lines 210-225): [ret, fs], ret the number of files deleted
ClearCache(fs) ==
    [ret |-> Cardinality({path \in CachePaths : fs[path].exists}),
     fs |-> [path \in CachePaths |-> NoFile]]

NoStore == [payload |-> Null, at |-> -1, ok |-> FALSE]
NoOp == [op |-> "none", h |-> "", ret |-> Null, existed |-> FALSE, age |-> 0,
         gone |-> FALSE, same |-> TRUE, unread |-> FALSE]

\* the record of stores after cache_result(h, payload) at time t: a store
\* that cannot open the file leaves the entry as it was, one whose write
\* fails leaves no entry to read
Stored(ls, h, payload, t, fault) ==
    CASE fault.kind = "open" -> ls
      [] fault.kind = "write" -> [ls EXCEPT ![h] = NoStore]
      [] OTHER -> [ls EXCEPT ![h] = [payload |-> payload, at |-> t, ok |-> TRUE]]

CacheIdle ==
    /\ files = EmptyDir
    /\ now = 0
    /\ lastStore = [h \in Hashes |-> NoStore]
    /\ lastOp = NoOp

(***************************************************************************)
(* A whole call of scan_file given how the remote service behaves during   *)
(* it: env names the response to each request the call may make, and how   *)
(* the polling ends.  The result and the requests made, in order.          *)
(***************************************************************************)
\* the polls that answered "queued" before the one that ends the polling
MaxQueuedPolls == 1

\* time.time() - start_time (line 156) at the test after poll number k + 1,
\* in whole seconds, when each request takes lat seconds: k + 1 requests
\* and k sleeps
Elapsed(k, lat) == (k + 1) * lat + SleepSeconds * k
\* line 156, `time.time() - start_time > max_wait`, for t whole seconds;
\* frac says that the clock reads a fraction of a second more than that
\* (the machine clock's resolution), which is what passes the test at t = mw
Exceeds(t, frac, mw) == t > mw \/ (frac /\ t >= mw)
\* the sleeps get_analysis makes before the test of line 156 raises, when no
\* poll answers "completed"
TimeoutSleeps(lat, frac) ==
    CHOOSE k \in 0..(DefaultMaxWait \div SleepSeconds + 1) :
        /\ Exceeds(Elapsed(k, lat), frac, DefaultMaxWait)
        /\ \A j \in 0..(k - 1) : ~Exceeds(Elapsed(j, lat), frac, DefaultMaxWait)

\* how a wait ends: completed after n sleeps (requests taking no time), the
\* timeout, or a poll that fails; sleeps counts the time.sleep(5) calls and
\* took the seconds from the first poll to the return
PollOutcomes ==
    {[kind |-> "completed", body |-> AnalysisBody("a1", "completed", st),
      sleeps |-> n, took |-> Elapsed(n, 0)] :
        st \in {StatsObj(0, 0, 2, 1), StatsObj(1, 1, 1, 0)},
        n \in 0..MaxQueuedPolls}
    \cup {[kind |-> "timeout", body |-> Null,
           sleeps |-> TimeoutSleeps(lat, frac),
           took |-> Elapsed(TimeoutSleeps(lat, frac), lat)] :
             lat \in 0..MaxLatency, frac \in BOOLEAN}
    \cup {[kind |-> "fault", body |-> Null, sleeps |-> 0, took |-> 0]}

\* get_analysis(analysis_id, wait=True) as a whole (lines 125-163)
GetAnalysisRun(outcome) ==
    CASE outcome.kind = "completed" -> Return(outcome.body, FALSE)
      [] outcome.kind = "timeout" -> Raise(TimeoutError)
      [] OTHER -> Raise("Error getting analysis")

\* upload_file as a whole (lines 76-112)
UploadFileRun(env) ==
    IF NeedsUploadUrl(env.size)
    THEN LET u == GetUploadUrl(env.url) IN
         IF u.kind = "raise"
         THEN [result |-> u, reqs |-> <<"upload_url">>]
         ELSE [result |-> PostFile(env.post), reqs |-> <<"upload_url", "post">>]
    ELSE [result |-> PostFile(env.post), reqs |-> <<"post">>]

\* scan_file lines 190-196
UploadAndPoll(env, before) ==
    LET up == UploadFileRun(env) IN
    IF up.result.kind = "raise"
    THEN [result |-> up.result, reqs |-> before \o up.reqs, took |-> 0]
    ELSE LET an == GetAnalysisRun(env.poll) IN
         [result |-> IF an.kind = "raise" THEN an ELSE Return(an.data, TRUE),
          reqs |-> before \o up.reqs \o <<"poll">>, took |-> env.poll.took]

\* scan_file as a whole (lines 165-196): the result, the requests made and
\* the seconds the call slept
ScanFileRunAlwaysLooksUp(force_upload, env) ==
    IF ~env.exists
    THEN [result |-> Raise("FileNotFoundError"), reqs |-> <<>>, took |-> 0]
    ELSE LET chk == CheckHash(env.lookup) IN
         IF chk.kind = "raise"
         THEN [result |-> chk, reqs |-> <<"lookup">>, took |-> 0]
         ELSE IF ExistingData(chk.data) /\ ~force_upload
         THEN [result |-> Return(chk.data, FALSE), reqs |-> <<"lookup">>,
               took |-> 0]
         ELSE UploadAndPoll(env, <<"lookup">>)

ScanFileRun(force_upload, env) ==
    IF ~env.exists
    THEN [result |-> Raise("FileNotFoundError"), reqs |-> <<>>, took |-> 0]
    ELSE IF force_upload THEN UploadAndPoll(env, <<>>)
    ELSE LET chk == CheckHash(env.lookup) IN
         IF chk.kind = "raise"
         THEN [result |-> chk, reqs |-> <<"lookup">>, took |-> 0]
         ELSE IF ExistingData(chk.data)
         THEN [result |-> Return(chk.data, FALSE), reqs |-> <<"lookup">>,
               took |-> 0]
         ELSE UploadAndPoll(env, <<"lookup">>)

(***************************************************************************)
(* The scan command's loop body for one file (cli.py 152-182) and the      *)
(* quick action (vt_quick_action.py 36-79).  Each reads the cache, then,   *)
(* on a miss, is busy with the remote service for as long as scan_file     *)
(* takes, and then stores: the cache directory and the clock may have      *)
(* changed in between.                                                     *)
(***************************************************************************)
Contents == {"c1", "c2"}
\* calculate_file_hash (vt_scanner.py 32-49): the digest of the file's bytes
Sha256(content) == IF content = "c1" THEN "h1" ELSE "h2"

Verdict(parsed, uploaded) ==
    [kind |-> "verdict", summary |-> parsed, uploaded |-> uploaded, err |-> ""]
Failed(e) ==
    [kind |-> "error", summary |-> NoSummary(e), uploaded |-> FALSE, err |-> e]
\* parse_results' summary, or the error it raises
Reported(parsed, uploaded) ==
    IF parsed.ok THEN Verdict(parsed, uploaded) ELSE Failed(parsed.err)

\* config.py lines 203-208: cache_result swallows the IOError of a failed
\* store, so the caller goes on to report what it had
AfterStoreRaises(outcome, fault) ==
    IF fault.kind = "none" THEN outcome ELSE Failed("IOError")

AfterStore(outcome, fault) == outcome

\* cli.py line 160: `if cache and not force_upload`
ReadsCacheUnlessForced(useCache, force_upload) == ~force_upload

ReadsCache(useCache, force_upload) == useCache /\ ~force_upload

ScanDone(outcome, fs, ls, made, read, hit, wrote) ==
    [outcome |-> outcome, fs |-> fs, ls |-> ls, reqs |-> made,
     cacheRead |-> read, hit |-> hit, cacheWrote |-> wrote]

\* cli.py lines 160-161: the cache lookup of the scan command at time t
CliCacheCheck(fs, t, useCache, force_upload, h, env) ==
    IF ReadsCache(useCache, force_upload)
    THEN GetCachedResult(fs, h, t, DefaultMaxAgeDays, env.readFails)
    ELSE [ret |-> Null, fs |-> fs]

\* cli.py lines 162-166: the cached payload is parsed and reported
CliScanHit(lk, ls, read) ==
    ScanDone(Reported(ParseResults(lk.ret), FALSE), lk.fs, ls, <<>>,
             read, TRUE, FALSE)

\* cli.py lines 169-182 after a miss: scan_file has returned or raised and
\* it is time t; fs is the cache directory as it is then
CliScanMiss(fs, ls, t, useCache, force_upload, h, env) ==
    LET read == ReadsCache(useCache, force_upload)
        run == ScanFileRun(force_upload, env)
    IN  IF run.result.kind = "raise"
        THEN ScanDone(Failed(run.result.err), fs, ls, run.reqs,
                      read, FALSE, FALSE)
        ELSE
        LET parsed == ParseResults(run.result.data) IN
        IF ~parsed.ok
        THEN ScanDone(Failed(parsed.err), fs, ls, run.reqs,
                      read, FALSE, FALSE)
        ELSE IF useCache
        THEN ScanDone(AfterStore(Verdict(parsed, run.result.uploaded), env.fault),
                      CacheResult(fs, h, run.result.data, t, env.fault),
                      Stored(ls, h, run.result.data, t, env.fault),
                      run.reqs, read, FALSE, TRUE)
        ELSE ScanDone(Verdict(parsed, run.result.uploaded), fs, ls,
                      run.reqs, read, FALSE, FALSE)

\* cli.py lines 155-182 for one file, begun at time t, when no other
\* invocation touches the cache directory meanwhile
CliScanOne(fs, ls, t, useCache, force_upload, content, env) ==
    IF ~env.exists
    THEN ScanDone(Failed("FileNotFoundError"), fs, ls, <<>>, FALSE, FALSE, FALSE)
    ELSE
    LET h == Sha256(content)
        lk == CliCacheCheck(fs, t, useCache, force_upload, h, env)
    IN  IF Truthy(lk.ret)
        THEN CliScanHit(lk, ls, ReadsCache(useCache, force_upload))
        ELSE CliScanMiss(lk.fs, ls, t + ScanFileRun(force_upload, env).took,
                         useCache, force_upload, h, env)

\* vt_quick_action.py lines 68-79 after a hit: the cached payload is parsed
QuickScanHit(lk, ls) ==
    ScanDone(Reported(ParseResults(lk.ret), FALSE), lk.fs, ls, <<>>,
             TRUE, TRUE, FALSE)

\* vt_quick_action.py lines 72-79 after a miss: scan_file has returned or
\* raised and it is time t; the payload is stored before it is parsed
QuickScanMiss(fs, ls, t, h, env) ==
    LET run == ScanFileRun(FALSE, env) IN
    IF run.result.kind = "raise"
    THEN ScanDone(Failed(run.result.err), fs, ls, run.reqs,
                  TRUE, FALSE, FALSE)
    ELSE ScanDone(AfterStore(Reported(ParseResults(run.result.data),
                                      run.result.uploaded), env.fault),
                  CacheResult(fs, h, run.result.data, t, env.fault),
                  Stored(ls, h, run.result.data, t, env.fault),
                  run.reqs, TRUE, FALSE, TRUE)

\* vt_quick_action.py lines 64-79 (and 106-118), begun at time t, when no
\* other invocation touches the cache directory meanwhile
QuickScanOne(fs, ls, t, content, env) ==
    IF ~env.exists
    THEN ScanDone(Failed("FileNotFoundError"), fs, ls, <<>>, FALSE, FALSE, FALSE)
    ELSE
    LET h == Sha256(content)
        lk == GetCachedResult(fs, h, t, DefaultMaxAgeDays, env.readFails)
    IN  IF Truthy(lk.ret)
        THEN QuickScanHit(lk, ls)
        ELSE QuickScanMiss(lk.fs, ls, t + ScanFileRun(FALSE, env).took, h, env)

NoScan ==
    [entry |-> "none", useCache |-> FALSE, force |-> FALSE, h |-> "", at |-> 0,
     remoteHas |-> FALSE, held |-> NoStore, fault |-> NoFault,
     outcome |-> Failed(""), twin |-> Failed(""), calm |-> Failed(""),
     reqs |-> <<>>, cacheRead |-> FALSE, hit |-> FALSE, cacheWrote |-> FALSE]

\* the invocations that may run at the same time
Procs == {"p1", "p2"}

\* an invocation that is not between its cache lookup and its store
NoPend ==
    [entry |-> "none", content |-> "", useCache |-> FALSE, force |-> FALSE,
     env |-> Null, start |-> 0, due |-> 0, held |-> NoStore]

CliIdle == cli = NoScan /\ pend = [p \in Procs |-> NoPend] /\ scans = 0

(***************************************************************************)
(* Invocations that share the cache directory.  Each runs its cache        *)
(* operations one system call at a time: exists, stat, unlink, open, fstat *)
(* and read for get_cached_result; open("w") and the writes of the buffered    *)
(* text for cache_result; glob and the unlinks for clear_cache.            *)
(***************************************************************************)
NoCall ==
    [op |-> "none", h |-> "", pc |-> "idle", payload |-> Null, off |-> 0,
     got |-> <<>>, buf |-> 0, gen |-> 0, todo |-> {}, count |-> 0, ret |-> Null, err |-> ""]
Call(op, h, at, payload) ==
    [op |-> op, h |-> h, pc |-> at, payload |-> payload, off |-> 0,
     got |-> <<>>, buf |-> 0, gen |-> 0, todo |-> {}, count |-> 0, ret |-> Null, err |-> ""]
\* the call returned ret
Returned(c, ret) == [c EXCEPT !.pc = "done", !.ret = ret]
\* the call raised e to its caller
Raised(c, e) == [c EXCEPT !.pc = "failed", !.err = e]

\* a run of bytes never written reads as NUL bytes
Hole == Tok("nul", 0)
\* write(fd, block) at the descriptor's offset off
Overlay(text, off, block) ==
    [i \in 1..(IF Len(text) > off + Len(block) THEN Len(text)
               ELSE off + Len(block)) |->
        IF i > off /\ i <= off + Len(block) THEN block[i - off]
        ELSE IF i <= Len(text) THEN text[i]
        ELSE Hole]
\* the next flush of cache_result's buffer
NextBlock(text, off) == SubSeq(text, off + 1, Min(off + BlockTokens, Len(text)))

(***************************************************************************)
(* The configuration record (config.py 16-146) and the modes of the files  *)
(* the program creates.  A mode is the number chmod takes.                 *)
(***************************************************************************)
\* open(path, "w") creates a file with mode 0666 less the umask bits
CreateMode == 438
\* chmod(0o600), lines 88 and 137
OwnerOnly == 384
\* umask 022 and umask 077
Umasks == {18, 63}

\* a AND NOT b on the nine permission bits
RECURSIVE AndNot(_, _)
AndNot(a, b) ==
    IF a = 0 THEN 0
    ELSE 2 * AndNot(a \div 2, b \div 2)
         + (IF a % 2 = 1 /\ b % 2 = 0 THEN 1 ELSE 0)

\* the mode of a file open(path, "w") creates
Created(mask) == AndNot(CreateMode, mask)

NoCfg == [exists |-> FALSE, mode |-> 0, text |-> <<>>]

\* the value a function returned, or the exception it raised
Got(ret) == [ret |-> ret, err |-> ""]
Threw(e) == [ret |-> Null, err |-> e]

\* get_api_key (lines 35-61)
GetApiKeyRecordFirst(e, f, readFails) ==
    IF f.exists /\ ~readFails /\ JsonLoad(f.text).ok
       /\ IsObj(JsonLoad(f.text).val)
       /\ DictGet(JsonLoad(f.text).val, "api_key", Null) # Null
    THEN Got(DictGet(JsonLoad(f.text).val, "api_key", Null))
    ELSE IF Truthy(e) THEN Got(e)
    ELSE Got(Null)

GetApiKey(e, f, readFails) ==
    IF Truthy(e) THEN Got(e)
    ELSE IF ~f.exists THEN Got(Null)
    ELSE IF readFails THEN Got(Null)
    ELSE LET r == JsonLoad(f.text) IN
         IF ~r.ok THEN Got(Null)
         ELSE IF ~IsObj(r.val) THEN Threw("AttributeError")
         ELSE Got(DictGet(r.val, "api_key", Null))

\* is_configured (lines 139-146)
IsConfigured(e, f, readFails) ==
    LET k == GetApiKey(e, f, readFails) IN
    IF k.err # "" THEN [ret |-> FALSE, err |-> k.err]
    ELSE [ret |-> k.ret # Null, err |-> ""]

\* lines 71-81 and 120-130: the record as loaded, with key set to value
Updated(f, key, value) ==
    LET r == JsonLoad(f.text)
        old == IF f.exists /\ r.ok THEN r.val ELSE EmptyObj
    IN  IF ~IsObj(old) THEN Threw("TypeError")
        ELSE Got(Obj([k \in DOMAIN old.v \cup {key} |->
                        IF k = key THEN value ELSE old.v[k]]))

\* os.getenv("VT_API_KEY"): unset, empty or a key
EnvValues == {Null, Str(""), Str("ek")}

NoSet == [op |-> "none", pc |-> "idle", data |-> Null, err |-> ""]
NoGet ==
    [op |-> "none", ret |-> Null, configured |-> FALSE, err |-> "",
     readFails |-> FALSE]

ConfIdle ==
    /\ osenv = Null
    /\ umask = 18
    /\ cfg = NoCfg
    /\ setop = NoSet
    /\ lastGet = NoGet
    /\ fmode = [path \in CachePaths |-> 0]

\* the size of a content in bytes: one block of calculate_file_hash's reads
\* for c1, two for c2
HashBlock == 4096
Size(content) == IF content = "c1" THEN HashBlock ELSE 2 * HashBlock
\* bytes lo..hi of a content; two contents differ in every byte
Run(content, lo, hi) == [of |-> content, lo |-> lo, hi |-> hi]
\* the bytes of a content, as the runs a reader is given
Bytes(content) == <<Run(content, 1, Size(content))>>
\* the bytes read so far with those of one more read
Joined(got, block) ==
    IF got # <<>> /\ block # <<>> /\ got[Len(got)].of = block[1].of
       /\ got[Len(got)].hi + 1 = block[1].lo
    THEN [got EXCEPT ![Len(got)].hi = block[1].hi]
    ELSE got \o block
\* the same bytes in the fewest runs
RECURSIVE Merged(_)
Merged(runs) ==
    IF runs = <<>> THEN <<>>
    ELSE Joined(Merged(SubSeq(runs, 1, Len(runs) - 1)), <<runs[Len(runs)]>>)
\* a name that tells byte strings apart
RECURSIVE NameOf(_)
NameOf(runs) ==
    IF runs = <<>> THEN ""
    ELSE runs[1].of \o "[" \o ToString(runs[1].lo) \o ".."
         \o ToString(runs[1].hi) \o "]" \o NameOf(Tail(runs))
\* hashlib.sha256 of the bytes a reader was given (vt_scanner.py 43-49):
\* the digest of a content for its bytes, and for any other bytes a digest
\* of their own
Digest(runs) ==
    CASE Merged(runs) = Bytes("c1") -> Sha256("c1")
      [] Merged(runs) = Bytes("c2") -> Sha256("c2")
      [] OTHER -> "sha256:" \o NameOf(Merged(runs))
\* the byte strings a pass over the file can read: the reads end at 4096,
\* 4097 or 8192 bytes, and c1 has bytes up to 4096 only
ByteStrings ==
    {<<>>, Bytes("c1"), Bytes("c2"),
     <<Run("c2", 1, HashBlock)>>,
     <<Run("c2", 1, HashBlock + 1)>>,
     <<Run("c1", 1, HashBlock), Run("c2", HashBlock + 1, HashBlock + 1)>>,
     <<Run("c1", 1, HashBlock), Run("c2", HashBlock + 1, 2 * HashBlock)>>}
RaceDigests == {Digest(runs) : runs \in ByteStrings}
RacePaths == {GetCachePath(h) : h \in RaceDigests}

\* no scan of the watched file is under way; the file holds content c1 and
\* no cache entry has been written
NoJob ==
    [disk |-> "c1", pc |-> "idle", scans |-> 0, useCache |-> FALSE,
     force |-> FALSE, got |-> <<>>, buf |-> 0, key |-> "", looked |-> "", sent |-> "",
     queued |-> 0, payload |-> Null, about |-> "", outcome |-> Failed(""),
     subject |-> [h \in RaceDigests |-> ""]]

RaceIdle == job = NoJob

\* the scan command has not been started
NoRun ==
    [phase |-> "idle", configured |-> FALSE, items |-> <<>>, useCache |-> FALSE,
     force |-> FALSE, idx |-> 0, results |-> <<>>, errors |-> <<>>, exit |-> -1,
     due |-> 0]
BatchIdle == cmd = NoRun

ConcIdle ==
    /\ proc = [p \in Procs |-> NoCall]
    /\ ops = 0
    /\ gen = [path \in CachePaths |-> 0]
    /\ orphans = [path \in CachePaths |-> <<>>]
    /\ storedFull = [h \in Hashes |-> {}]
    /\ touched = [h \in Hashes |-> FALSE]


(***************************************************************************)
(* Spec: one call of scan_file (lines 165-196) or of get_analysis (lines   *)
(* 125-163), one remote request or one sleep per step.                     *)
(***************************************************************************)
FileSizes == {1, MaxUploadSize, MaxUploadSize + 1}
MaxWaitChoices == {0, 2 * SleepSeconds + 1}

Bump(n) == IF n < MaxReqCount THEN n + 1 ELSE n
Counted(kind) == [reqs EXCEPT ![kind] = Bump(@)]
FirstIs(kind) == IF firstReq = "" THEN kind ELSE firstReq

ScanInit ==
    /\ pc = "idle"
    /\ mode = ""
    /\ force = FALSE
    /\ fsize = 0
    /\ wait = TRUE
    /\ max_wait = DefaultMaxWait
    /\ elapsed = 0
    /\ uploadUrl = DefaultUploadUrl
    /\ analysis_id = ""
    /\ result = NoResult
    /\ lookupResp = NoResp
    /\ reqs = [lookup |-> 0, upload_url |-> 0, post |-> 0, poll |-> 0]
    /\ firstReq = ""
    /\ postedTo = ""
    /\ polledIds = {}
    /\ completedAt = -1
    /\ completedBody = Null
    /\ pollFault = FALSE
    /\ pollsAfter = 0

ParseIdle ==
    /\ pin = Null
    /\ pout = NoSummary("unparsed")

\* scan_file lines 176-188, up to the first request
StartScanFile(f, size, exists) ==
    /\ pc = "idle"
    /\ mode' = "scan_file"
    /\ force' = f
    /\ fsize' = size
    /\ IF ~exists
       THEN pc' = "done" /\ result' = Raise("FileNotFoundError")
       ELSE /\ pc' = IF f THEN UploadPc(size) ELSE "check_hash"
            /\ result' = result
    /\ UNCHANGED <<wait, max_wait, elapsed, uploadUrl, analysis_id, lookupResp,
                   reqs, firstReq, postedTo, polledIds, completedAt,
                   completedBody, pollFault, pollsAfter>>
    /\ UNCHANGED nonScanVars

\* a direct call get_analysis(analysis_id, wait, max_wait): lines 137-139
StartGetAnalysis(id, w, mw) ==
    /\ pc = "idle"
    /\ mode' = "get_analysis"
    /\ analysis_id' = id
    /\ wait' = w
    /\ max_wait' = mw
    /\ elapsed' = 0
    /\ pc' = "poll"
    /\ UNCHANGED <<force, fsize, uploadUrl, result, lookupResp, reqs, firstReq,
                   postedTo, polledIds, completedAt, completedBody, pollFault,
                   pollsAfter>>
    /\ UNCHANGED nonScanVars

\* scan_file lines 185-188 with check_hash (lines 61-74)
CheckHashStep(resp) ==
    /\ pc = "check_hash"
    /\ lookupResp' = resp
    /\ reqs' = Counted("lookup")
    /\ firstReq' = FirstIs("lookup")
    /\ LET r == CheckHash(resp) IN
       IF r.kind = "raise"
       THEN pc' = "done" /\ result' = r
       ELSE IF ExistingData(r.data)
       THEN pc' = "done" /\ result' = Return(r.data, FALSE)
       ELSE pc' = UploadPc(fsize) /\ result' = result
    /\ UNCHANGED <<mode, force, fsize, wait, max_wait, elapsed, uploadUrl,
                   analysis_id, postedTo, polledIds, completedAt,
                   completedBody, pollFault, pollsAfter>>
    /\ UNCHANGED nonScanVars

\* upload_file line 94 with _get_upload_url (lines 114-123)
GetUploadUrlStep(resp) ==
    /\ pc = "get_upload_url"
    /\ reqs' = Counted("upload_url")
    /\ firstReq' = FirstIs("upload_url")
    /\ LET r == GetUploadUrl(resp) IN
       IF r.kind = "raise"
       THEN pc' = "done" /\ result' = r /\ uploadUrl' = uploadUrl
       ELSE pc' = "post_file" /\ result' = result /\ uploadUrl' = r.data.v
    /\ UNCHANGED <<mode, force, fsize, wait, max_wait, elapsed, analysis_id,
                   lookupResp, postedTo, polledIds, completedAt,
                   completedBody, pollFault, pollsAfter>>
    /\ UNCHANGED nonScanVars

\* upload_file lines 96-112, then get_analysis lines 137-139
PostFileStep(resp) ==
    /\ pc = "post_file"
    /\ reqs' = Counted("post")
    /\ firstReq' = FirstIs("post")
    /\ postedTo' = uploadUrl
    /\ LET r == PostFile(resp) IN
       IF r.kind = "raise"
       THEN pc' = "done" /\ result' = r /\ analysis_id' = analysis_id
       ELSE pc' = "poll" /\ result' = result /\ analysis_id' = r.data.v
    /\ elapsed' = 0
    /\ UNCHANGED <<mode, force, fsize, wait, max_wait, uploadUrl, lookupResp,
                   polledIds, completedAt, completedBody, pollFault,
                   pollsAfter>>
    /\ UNCHANGED nonScanVars

\* get_analysis lines 141-157: one request, taking d seconds, and the checks
PollStep(resp, d) ==
    /\ pc = "poll"
    /\ reqs' = Counted("poll")
    /\ firstReq' = FirstIs("poll")
    /\ polledIds' = polledIds \cup {analysis_id}
    /\ elapsed' = elapsed + d
    /\ pollsAfter' = IF completedAt # -1 THEN Bump(pollsAfter) ELSE pollsAfter
    /\ LET turn == PollTurn(resp, wait, elapsed + d, max_wait)
           done == HasStatus(resp.body) /\ StatusOf(resp.body) = "completed"
       IN
       /\ IF done /\ completedAt = -1
          THEN completedAt' = elapsed + d /\ completedBody' = resp.body
          ELSE UNCHANGED <<completedAt, completedBody>>
       /\ pollFault' = (pollFault \/ (turn.act = "raise" /\ turn.err # TimeoutError))
       /\ IF turn.act = "raise"
          THEN pc' = "done" /\ result' = Raise(turn.err)
          ELSE IF turn.act = "return"
          THEN pc' = "done" /\ result' = Return(resp.body, mode = "scan_file")
          ELSE pc' = "sleep" /\ result' = result
    /\ UNCHANGED <<mode, force, fsize, wait, max_wait, uploadUrl, analysis_id,
                   lookupResp, postedTo>>
    /\ UNCHANGED nonScanVars

\* get_analysis line 160
SleepStep ==
    /\ pc = "sleep"
    /\ elapsed' = elapsed + SleepSeconds
    /\ pc' = "poll"
    /\ UNCHANGED <<mode, force, fsize, wait, max_wait, uploadUrl, analysis_id,
                   result, lookupResp, reqs, firstReq, postedTo, polledIds,
                   completedAt, completedBody, pollFault, pollsAfter>>
    /\ UNCHANGED nonScanVars

\* requests.get / requests.post are called without a timeout argument
\* (check_hash line 62, _get_upload_url line 118, upload_file line 101,
\* get_analysis line 143): a server that accepts the request and never
\* answers keeps the call inside the request for ever.
InRequest == pc \in {"check_hash", "get_upload_url", "post_file", "poll"}

RequestBlocks ==
    /\ InRequest
    /\ pc' = "blocked"
    /\ UNCHANGED <<mode, force, fsize, wait, max_wait, elapsed, uploadUrl,
                   analysis_id, result, lookupResp, reqs, firstReq, postedTo,
                   polledIds, completedAt, completedBody, pollFault,
                   pollsAfter>>
    /\ UNCHANGED nonScanVars

Init == ScanInit /\ ParseIdle /\ CacheIdle /\ CliIdle /\ ConcIdle /\ BatchIdle
    /\ ConfIdle
    /\ RaceIdle

Next ==
    \/ \E f \in BOOLEAN, size \in FileSizes, exists \in BOOLEAN :
          StartScanFile(f, size, exists)
    \/ \E id \in AnalysisIds, w \in BOOLEAN, mw \in MaxWaitChoices :
          StartGetAnalysis(id, w, mw)
    \/ \E resp \in LookupResponses : CheckHashStep(resp)
    \/ \E resp \in UploadUrlResponses : GetUploadUrlStep(resp)
    \/ \E resp \in PostResponses : PostFileStep(resp)
    \/ \E resp \in PollResponses(analysis_id), d \in 0..MaxLatency :
          PollStep(resp, d)
    \/ SleepStep
    \/ RequestBlocks

Spec == Init /\ [][Next]_vars

\* The interpreter keeps running the call: time.sleep(5) ends, and a request
\* that was sent ends in one of the three ways Next gives it (it returns, it
\* raises, or it blocks for ever: RequestBlocks).  Nothing forces a request
\* to be answered.
FairSpec == Spec /\ WF_vars(Next)

(***************************************************************************)
(* Claims about get_analysis and scan_file.                                *)
(***************************************************************************)
Polled == reqs.poll > 0
EveryPollGaveStatus == ~pollFault

\* C1, first part: a waiting get_analysis that returns, returns a payload
\* whose status is "completed".
WaitReturnsOnlyCompleted ==
    (wait /\ Polled /\ result.kind = "return")
        => (HasStatus(result.data) /\ StatusOf(result.data) = "completed")

\* C1, second part: a waiting get_analysis whose polls all reported a status
\* other than "completed" ends, when it ends, by raising the timeout error,
\* after max_wait.
NeverCompletedTimesOut ==
    (wait /\ Polled /\ pc = "done" /\ completedAt = -1 /\ EveryPollGaveStatus)
        => (result = Raise(TimeoutError) /\ elapsed > max_wait)

\* the status test (lines 149-150) precedes the timeout test (lines 156-157):
\* a "completed" response first read after max_wait is returned
LateCompletedIsReturned ==
    (wait /\ Polled /\ completedAt > max_wait)
        => /\ pc = "done"
           /\ result.kind = "return"
           /\ result.data = completedBody

\* the loop sleeps (line 160) only while the elapsed time is within max_wait,
\* so a call makes at most max_wait \div 5 + 1 sleeps
SleepsOnlyInTime == (pc = "sleep") => (wait /\ elapsed <= max_wait)

CompletedInTime == completedAt # -1 /\ completedAt <= max_wait

\* the statement of C1 as the specification words it: a waiting call whose
\* polls reported no "completed" status before the elapsed time exceeded
\* max_wait ends by raising the timeout error
NotCompletedInTimeTimesOut ==
    (wait /\ Polled /\ pc = "done" /\ ~CompletedInTime /\ EveryPollGaveStatus)
        => (result = Raise(TimeoutError) /\ elapsed > max_wait)

\* C1 as stated: get_analysis with wait=True never returns a payload whose
\* status is not "completed"; if no poll reports "completed" before the
\* elapsed time exceeds max_wait the call ends by raising the timeout error;
\* and the call eventually does end.  Violated twice over: a "completed"
\* response first read after max_wait is returned, not timed out; and a poll
\* request that is never answered keeps the call from ending.
C1_AsStated ==
    /\ [](WaitReturnsOnlyCompleted /\ NotCompletedInTimeTimesOut)
    /\ ((pc \in {"poll", "sleep"}) ~> (pc = "done"))

\* C1: get_analysis with wait=True never returns a payload whose status is
\* not "completed"; a call none of whose polls reported "completed" ends,
\* when it ends, by raising the timeout error after max_wait; a "completed"
\* response is returned even when it is first read after max_wait; the call
\* sleeps only while the elapsed time is within max_wait; and the polling
\* loop is always left, either because the call ends or because a request is
\* never answered.
C1_WaitEndsCompletedOrTimeout ==
    /\ [](/\ WaitReturnsOnlyCompleted
          /\ NeverCompletedTimesOut
          /\ LateCompletedIsReturned
          /\ SleepsOnlyInTime)
    /\ ((pc \in {"poll", "sleep"}) ~> (pc \in {"done", "blocked"}))

\* C1 witness: a waiting call polled more than once, never saw "completed"
\* and ended with the timeout error.
C1_Witness ==
    /\ pc = "done" /\ wait /\ reqs.poll >= 2 /\ completedAt = -1
    /\ ~pollFault /\ result = Raise(TimeoutError)

\* a "completed" response first read after max_wait was returned
C1_LateCompleted ==
    /\ pc = "done" /\ wait /\ reqs.poll >= 2 /\ completedAt > max_wait
    /\ result.kind = "return" /\ result.data = completedBody

\* a poll request was never answered
C1_Blocked == pc = "blocked" /\ wait /\ Polled /\ polledIds # {}

\* C2: with wait=True, once a poll response with status "completed" arrives
\* at an elapsed time not above max_wait, the call has returned exactly that
\* response and no poll is issued after it.
C2_CompletedIsReturned ==
    (wait /\ Polled /\ completedAt # -1 /\ completedAt <= max_wait)
        => /\ pc = "done"
           /\ result.kind = "return"
           /\ result.data = completedBody
           /\ pollsAfter = 0

\* C2 witness: non-completed polls, then "completed" within max_wait, returned.
C2_Witness ==
    /\ wait /\ reqs.poll >= 2 /\ completedAt > 0 /\ completedAt <= max_wait
    /\ pc = "done" /\ result.kind = "return" /\ result.data = completedBody

RealStatus(resp) == resp.status \notin {NoResp.status, TransportError}

\* C3: in scan_file without force_upload, a hash lookup answered with a
\* status that is neither 200 nor 404 ends the scan with an error, and no
\* upload request and no poll request is made.
C3_OtherStatusIsFatal ==
    (mode = "scan_file" /\ ~force /\ RealStatus(lookupResp)
     /\ lookupResp.status \notin {200, 404})
        => /\ pc = "done"
           /\ result.kind = "raise"
           /\ reqs.upload_url = 0 /\ reqs.post = 0 /\ reqs.poll = 0

LookupNotFound == mode = "scan_file" /\ ~force /\ lookupResp.status = 404
LookupFound ==
    /\ mode = "scan_file" /\ ~force
    /\ lookupResp.status = 200 /\ Truthy(lookupResp.body)
UploadAttempted == reqs.upload_url + reqs.post > 0

\* C4: in scan_file without force_upload, a not-found lookup is followed by
\* the upload (never an error before it), exactly one upload is made, only
\* the handle it returned is polled, and a scan that returns then returns
\* (the completed poll payload, was_uploaded=True); a found lookup returns
\* (the lookup payload, was_uploaded=False) with no upload and no poll.
C4_MissUploadsFoundReturns ==
    /\ LookupNotFound =>
          /\ reqs.lookup = 1 /\ reqs.post <= 1
          /\ pc = "done" => UploadAttempted
          /\ Polled => (reqs.post = 1 /\ polledIds = {analysis_id})
          /\ result.kind = "return" =>
                /\ reqs.post = 1 /\ Polled
                /\ result = Return(completedBody, TRUE)
                /\ StatusOf(result.data) = "completed"
    /\ LookupFound =>
          /\ pc = "done"
          /\ result = Return(lookupResp.body, FALSE)
          /\ reqs.upload_url = 0 /\ reqs.post = 0 /\ reqs.poll = 0

\* C4 witness: a not-found lookup, one upload, polling, and the return.
C4_Witness ==
    /\ LookupNotFound /\ pc = "done" /\ reqs.post = 1 /\ reqs.poll >= 2
    /\ result.kind = "return" /\ result.uploaded

\* the file of the scan is larger than 32 MiB
LargeFile == fsize > 32 * 1024 * 1024
\* the upload target was requested and the request failed
TargetFailed == reqs.upload_url > 0 /\ uploadUrl = DefaultUploadUrl

(* C18: upload_file requests a dedicated upload target before sending bytes
   exactly when the file is strictly larger than 32 MiB, and then sends the
   bytes to that target; a file of at most 32 MiB is sent to the default
   endpoint without a target request.  If the target request fails, no
   bytes are sent and the scan fails. *)
C18_LargeFilesUseUploadTarget ==
    /\ (reqs.upload_url > 0) => LargeFile
    /\ (reqs.post > 0) =>
          IF LargeFile
          THEN reqs.upload_url = 1 /\ postedTo \in UploadTargets
               /\ postedTo = uploadUrl
          ELSE reqs.upload_url = 0 /\ postedTo = DefaultUploadUrl
    /\ TargetFailed =>
          (reqs.post = 0 /\ pc = "done" /\ result.kind = "raise")

\* C18 witness: a file one byte over 32 MiB was sent to the target obtained
\* for it and the upload returned an analysis id
C18_Witness ==
    /\ mode = "scan_file" /\ fsize = MaxUploadSize + 1
    /\ reqs.upload_url = 1 /\ reqs.post = 1
    /\ postedTo = "u1"
    /\ analysis_id \in AnalysisIds

(***************************************************************************)
(* SpecParse: parse_results applied to one payload drawn from a bounded    *)
(* set of payloads of the two shapes, and to malformed ones.               *)
(***************************************************************************)
\* largest engine count in a stats object
MaxStat == 2

StatKeys == {"malicious", "suspicious", "undetected", "harmless", "timeout"}

\* stats objects: any subset of the keys, each with a count in 0..MaxStat
StatsObjs ==
    {Obj([key \in S |-> Num(f[key])]) :
        S \in SUBSET StatKeys, f \in [StatKeys -> 0..MaxStat]}

SampleStats == {EmptyObj, StatsObj(0, 0, 1, 1), StatsObj(0, 1, 1, 0),
                StatsObj(1, 0, 0, 1)}

Payload(attrs) == Obj([data |-> Obj([attributes |-> Obj(attrs)])])

WellFormedPayloads ==
    {Payload(<<>>)}
    \cup {Payload([stats |-> st]) : st \in StatsObjs}
    \cup {Payload([last_analysis_stats |-> st, sha256 |-> Str("h1")]) :
             st \in StatsObjs}
    \cup {Payload([stats |-> st, last_analysis_stats |-> la]) :
             st \in SampleStats, la \in StatsObjs}

MalformedPayloads ==
    {Null, EmptyObj, Str("error"), Obj([data |-> Null]), Obj([data |-> EmptyObj]),
     Obj([data |-> Obj([attributes |-> Null])]),
     Payload([stats |-> Null]),
     Payload([stats |-> Obj([malicious |-> Null])]),
     Payload([last_analysis_stats |-> Obj([suspicious |-> Str("2")])])}

ParseInputs == WellFormedPayloads \cup MalformedPayloads

ParseInit ==
    /\ pin \in ParseInputs
    /\ pout = NoSummary("unparsed")

\* one call parse_results(pin)
ParseCall ==
    /\ pout.err = "unparsed"
    /\ pout' = ParseResults(pin)
    /\ UNCHANGED pin
    /\ UNCHANGED nonParseVars

InitParse == ScanInit /\ ParseInit /\ CacheIdle /\ CliIdle /\ ConcIdle /\ BatchIdle
    /\ ConfIdle
    /\ RaceIdle

NextParse == ParseCall

SpecParse == InitParse /\ [][NextParse]_vars

\* the claim's reading of a payload: the stats object it names, and a count
\* of it with absent read as 0
Parsed == pout.err # "unparsed"
ClaimAttrs == pin.v["data"].v["attributes"]
ClaimStats ==
    IF Has(ClaimAttrs, "last_analysis_stats")
    THEN ClaimAttrs.v["last_analysis_stats"]
    ELSE IF Has(ClaimAttrs, "stats") THEN ClaimAttrs.v["stats"]
    ELSE EmptyObj
ClaimCount(key) ==
    IF Has(ClaimStats, key) THEN ClaimStats.v[key].v ELSE 0

\* C10: for a payload whose counts are non-negative numbers, parse_results
\* classifies by the ordered rule on the selected stats (last_analysis_stats
\* when present, otherwise stats): malicious > 0 gives MALICIOUS, otherwise
\* suspicious > 0 gives SUSPICIOUS, otherwise CLEAN; detections is the
\* malicious count; absent counts read as 0.
C10_ClassifiesInOrder ==
    (Parsed /\ pin \in WellFormedPayloads) =>
        /\ pout.ok
        /\ pout.detections = ClaimCount("malicious")
        /\ (ClaimCount("malicious") > 0) => pout.threat_level = "MALICIOUS"
        /\ (ClaimCount("malicious") = 0 /\ ClaimCount("suspicious") > 0)
              => pout.threat_level = "SUSPICIOUS"
        /\ (ClaimCount("malicious") = 0 /\ ClaimCount("suspicious") = 0)
              => pout.threat_level = "CLEAN"

\* C10 witness: both stats objects present and disagreeing, the malicious
\* count absent from the selected one, suspicious engines present.
C10_Witness ==
    /\ Parsed /\ pin \in WellFormedPayloads
    /\ Has(ClaimAttrs, "stats") /\ Has(ClaimAttrs, "last_analysis_stats")
    /\ Has(ClaimAttrs.v["stats"], "malicious")
    /\ ClaimAttrs.v["stats"].v["malicious"].v > 0
    /\ ~Has(ClaimStats, "malicious")
    /\ ClaimCount("suspicious") = 2
    /\ pout.threat_level = "SUSPICIOUS" /\ pout.detections = 0

(* C11: whenever parse_results returns a summary, total_scans is the sum of
   the malicious, suspicious, undetected and harmless counts of the selected
   stats, absent counts read as 0; a timeout count (or any other outcome
   count) in the stats does not enter the sum. *)
C11_TotalIsSumOfFour ==
    (Parsed /\ pin \in WellFormedPayloads) =>
        /\ pout.ok
        /\ pout.total_scans = ClaimCount("malicious") + ClaimCount("suspicious")
                              + ClaimCount("undetected") + ClaimCount("harmless")

\* C11 witness: the selected stats count engines that timed out and lack
\* the harmless count; the total is the sum of the three counted outcomes.
C11_Witness ==
    /\ Parsed /\ pin \in WellFormedPayloads
    /\ ClaimCount("timeout") = 2
    /\ ~Has(ClaimStats, "harmless")
    /\ ClaimCount("malicious") = 1 /\ ClaimCount("suspicious") = 1
    /\ ClaimCount("undetected") = 2
    /\ pout.ok /\ pout.total_scans = 4

\* the payload has data.attributes and, in it, a stats object under one of
\* the two known keys
HasStatsShape(d) ==
    /\ Has(d, "data")
    /\ Has(d.v["data"], "attributes")
    /\ LET attrs == d.v["data"].v["attributes"] IN
        \/ Has(attrs, "stats") /\ IsObj(attrs.v["stats"])
        \/ Has(attrs, "last_analysis_stats")
              /\ IsObj(attrs.v["last_analysis_stats"])

(* C13 as stated: parse_results returns a summary only for a payload that
   has data.attributes and a stats object in one of the two known shapes;
   for every payload in which these are structurally absent it fails with a
   parse error and returns no summary. *)
C13_NoStatsNoSummary ==
    (Parsed /\ ~HasStatsShape(pin)) => (~pout.ok /\ pout.err = "parse")

(***************************************************************************)
(* SpecCache: one invocation at a time calling the cache operations, the   *)
(* clock advancing between calls.                                          *)
(***************************************************************************)
\* the clock advances by a second or by a whole freshness window
MaxSecTicks == 1
MaxWindowTicks == 1
Window == MaxAgeSeconds(DefaultMaxAgeDays)

CachePayloads ==
    {ReportBody("h1", StatsObj(0, 0, 2, 1)),
     AnalysisBody("a1", "completed", StatsObj(1, 1, 1, 0))}

StoreOp(h, payload, fault) ==
    /\ files' = CacheResult(files, h, payload, now, fault)
    /\ lastStore' = Stored(lastStore, h, payload, now, fault)
    /\ lastOp' = NoOp
    /\ UNCHANGED now
    /\ UNCHANGED nonCacheVars

LookupOp(h, readFails) ==
    LET r == GetCachedResult(files, h, now, DefaultMaxAgeDays, readFails)
        f == files[<<"cache_dir", h, ".json">>]
    IN  /\ files' = r.fs
        /\ lastOp' = [op |-> "lookup", h |-> h, ret |-> r.ret,
                      existed |-> f.exists,
                      age |-> IF f.exists THEN now - f.mtime ELSE 0,
                      gone |-> ~r.fs[<<"cache_dir", h, ".json">>].exists,
                      same |-> r.fs = files,
                      unread |-> readFails]
        /\ UNCHANGED <<now, lastStore>>
        /\ UNCHANGED nonCacheVars

ClearOp ==
    /\ files' = ClearCache(files).fs
    /\ lastStore' = [h \in Hashes |-> NoStore]
    /\ lastOp' = NoOp
    /\ UNCHANGED now
    /\ UNCHANGED nonCacheVars

TickSecond ==
    /\ now % Window < MaxSecTicks
    /\ now' = now + 1
    /\ lastOp' = NoOp
    /\ UNCHANGED <<files, lastStore>>
    /\ UNCHANGED nonCacheVars

TickWindow ==
    /\ now \div Window < MaxWindowTicks
    /\ now' = now + Window
    /\ lastOp' = NoOp
    /\ UNCHANGED <<files, lastStore>>
    /\ UNCHANGED nonCacheVars

InitCache == ScanInit /\ ParseIdle /\ CacheIdle /\ CliIdle /\ ConcIdle /\ BatchIdle
    /\ ConfIdle
    /\ RaceIdle

NextCache ==
    \/ \E h \in Hashes, payload \in CachePayloads, fault \in StoreFaults :
          StoreOp(h, payload, fault)
    \/ \E h \in Hashes, readFails \in BOOLEAN : LookupOp(h, readFails)
    \/ ClearOp
    \/ TickSecond
    \/ TickWindow

SpecCache == InitCache /\ [][NextCache]_vars

JustLookedUp == lastOp.op = "lookup"

\* C6: get_cached_result returns a payload only if an entry for the hash
\* exists and its age is within the freshness window (7 days); for an entry
\* older than the window it returns nothing and the entry no longer exists
\* afterwards; for an absent entry it returns nothing and changes nothing.
C6_LookupFreshOnlyLazyExpiry ==
    JustLookedUp =>
        /\ lastOp.ret # Null => (lastOp.existed /\ lastOp.age <= Window)
        /\ (lastOp.existed /\ lastOp.age > Window)
              => (lastOp.ret = Null /\ lastOp.gone)
        /\ ~lastOp.existed => (lastOp.ret = Null /\ lastOp.same)

\* C6 witness: a lookup that found an entry older than the window, returned
\* nothing and removed it.
C6_Witness ==
    /\ JustLookedUp /\ lastOp.existed /\ lastOp.age = Window + 1
    /\ lastOp.ret = Null /\ lastOp.gone

\* C7: a lookup of h made within the freshness window of the most recent
\* store(h, payload) returns exactly that payload, whatever stores to h or to
\* other hashes came before it, when that store wrote its file and the file
\* is read back (a store or read that meets an IOError is swallowed).
C7_LookupReturnsLastStore ==
    (JustLookedUp /\ lastStore[lastOp.h].at >= 0
     /\ now - lastStore[lastOp.h].at <= Window
     /\ lastStore[lastOp.h].ok /\ ~lastOp.unread)
        => lastOp.ret = lastStore[lastOp.h].payload

\* C7 witness: h1 stored, later h2 stored with another payload; the lookup
\* of h1 at the very edge of the window returns the payload stored under h1.
C7_Witness ==
    /\ JustLookedUp /\ lastOp.h = "h1" /\ lastOp.age = Window
    /\ lastStore["h1"].ok /\ lastStore["h2"].ok
    /\ lastStore["h2"].payload # lastStore["h1"].payload
    /\ lastStore["h2"].at > lastStore["h1"].at
    /\ lastOp.ret = lastStore["h1"].payload


(***************************************************************************)
(* SpecCli: scans of single files through the scan command and the quick   *)
(* action, sharing one cache directory, with the clock advancing between   *)
(* them.  Each scan meets one of a set of remote and local environments.   *)
(***************************************************************************)
CleanStats == StatsObj(0, 0, 2, 1)
BadStats == StatsObj(1, 1, 1, 0)
Resp(code, body) == [status |-> code, body |-> body]
OkUploadUrl == Resp(200, Obj([data |-> Str("u1")]))
OkPost == Resp(200, Obj([data |-> Obj([id |-> Str("a1")])]))
NotFound == Resp(404, EmptyObj)
Completed(stats) ==
    [kind |-> "completed", body |-> AnalysisBody("a1", "completed", stats),
     sleeps |-> 0, took |-> 0]

\* the remote knows the file and reports it clean; nothing fails
BaseEnv(h) ==
    [exists |-> TRUE, size |-> 1, lookup |-> Resp(200, ReportBody(h, CleanStats)),
     url |-> OkUploadUrl, post |-> OkPost, poll |-> Completed(CleanStats),
     fault |-> NoFault, readFails |-> FALSE]

CliLookups(h) ==
    {Resp(200, ReportBody(h, CleanStats)), Resp(200, ReportBody(h, BadStats)),
     Resp(200, Obj([data |-> EmptyObj])), Resp(200, EmptyObj),
     NotFound, Resp(204, EmptyObj), Resp(500, EmptyObj), NoResp}

Envs(h) ==
    {[BaseEnv(h) EXCEPT !.lookup = l] : l \in CliLookups(h)}
    \cup {[BaseEnv(h) EXCEPT !.lookup = NotFound, !.poll = q] : q \in PollOutcomes}
    \cup {[BaseEnv(h) EXCEPT !.lookup = NotFound, !.post = Resp(500, EmptyObj)]}
    \cup {[BaseEnv(h) EXCEPT !.lookup = NotFound, !.size = MaxUploadSize + 1,
                              !.url = u] :
             u \in {OkUploadUrl, Resp(500, EmptyObj)}}
    \cup {[BaseEnv(h) EXCEPT !.fault = f] : f \in StoreFaults}
    \cup {[BaseEnv(h) EXCEPT !.readFails = TRUE],
          [BaseEnv(h) EXCEPT !.exists = FALSE]}

\* the scans that are followed
MaxCliScans == 2

\* what an invocation that starts while another one is busy may meet
OverlapEnvs(h) ==
    {[BaseEnv(h) EXCEPT !.lookup = l] :
        l \in {Resp(200, ReportBody(h, CleanStats)),
               Resp(200, ReportBody(h, BadStats)), NotFound}}

RemoteHas(env) == env.lookup.status = 200 /\ Truthy(env.lookup.body)

\* get_scanner (cli.py 33-55) and vt_quick_action.py 45-53: the API key the
\* invocation finds
HasApiKey == Truthy(GetApiKey(osenv, cfg, FALSE).ret)

\* the invocations that are busy with the remote service
Busy == {p \in Procs : pend[p] # NoPend}
\* an invocation begins: it is named p1 when none is busy, and it meets
\* one of OverlapEnvs when another one is busy
MayBegin(p, content, env) ==
    /\ cli = NoScan
    /\ scans < MaxCliScans
    /\ pend[p] = NoPend
    /\ IF Busy = {} THEN p = "p1" ELSE env \in OverlapEnvs(Sha256(content))

\* a scan that has to wait for the analysis begins in the first seconds of
\* a freshness window
MayTake(took) == took = 0 \/ now % Window <= MaxSecTicks

Pending(entry, content, useCache, force_upload, env, took) ==
    [entry |-> entry, content |-> content, useCache |-> useCache,
     force |-> force_upload, env |-> env, start |-> now, due |-> now + took,
     held |-> lastStore[Sha256(content)]]

\* what is recorded of a scan that has just ended: r is what it did, twin
\* what it does with the cache disabled, calm what it does when the store
\* meets no fault
Ended(entry, content, useCache, force_upload, env, start, held, r, twin, calm) ==
    [entry |-> entry, useCache |-> useCache, force |-> force_upload,
     h |-> Sha256(content), at |-> start, remoteHas |-> RemoteHas(env),
     held |-> held, fault |-> env.fault,
     outcome |-> r.outcome, twin |-> twin.outcome, calm |-> calm.outcome,
     reqs |-> r.reqs, cacheRead |-> r.cacheRead, hit |-> r.hit,
     cacheWrote |-> r.cacheWrote]

\* cli.py 131-166: the scan command stops when get_scanner finds no API key;
\* otherwise it takes a file, hashes it and looks it up in the cache; on a
\* hit it reports the cached payload, on a miss it calls scan_file and is
\* busy until scan_file returns
CliScan(p, content, useCache, force_upload, env) ==
    /\ MayBegin(p, content, env)
    /\ LET h == Sha256(content)
           lk == CliCacheCheck(files, now, useCache, force_upload, h, env)
           took == ScanFileRun(force_upload, env).took
       IN  IF ~HasApiKey
           THEN \E r \in {ScanDone(Failed("API key not configured"), files,
                                   lastStore, <<>>, FALSE, FALSE, FALSE)} :
                    /\ cli' = Ended("scan", content, useCache, force_upload, env,
                                    now, lastStore[h], r, r, r)
                    /\ UNCHANGED <<files, pend>>
           ELSE IF ~env.exists \/ Truthy(lk.ret)
           THEN \E r \in {CliScanOne(files, lastStore, now, useCache,
                                     force_upload, content, env)},
                   twin \in {CliScanOne(files, lastStore, now, FALSE,
                                        force_upload, content, env)} :
                    /\ files' = r.fs
                    /\ cli' = Ended("scan", content, useCache, force_upload, env,
                                    now, lastStore[h], r, twin, r)
                    /\ UNCHANGED pend
           ELSE /\ MayTake(took)
                /\ files' = lk.fs
                /\ pend' = [pend EXCEPT ![p] =
                              Pending("scan", content, useCache, force_upload,
                                      env, took)]
                /\ UNCHANGED cli
    /\ scans' = scans + 1
    /\ lastOp' = NoOp
    /\ UNCHANGED <<now, lastStore>>
    /\ UNCHANGED nonCliVars

\* cli.py 169-182: scan_file has returned or raised; the payload is parsed,
\* stored and reported
CliScanFinish(p) ==
    /\ cli = NoScan
    /\ pend[p].entry = "scan"
    /\ now = pend[p].due
    /\ LET c == pend[p]
           h == Sha256(c.content)
       IN  \E r \in {CliScanMiss(files, lastStore, now, c.useCache, c.force,
                                 h, c.env)},
              twin \in {CliScanMiss(files, lastStore, now, FALSE, c.force,
                                    h, c.env)},
              calm \in {CliScanMiss(files, lastStore, now, c.useCache, c.force,
                                    h, [c.env EXCEPT !.fault = NoFault])} :
            /\ files' = r.fs
            /\ lastStore' = r.ls
            /\ cli' = Ended("scan", c.content, c.useCache, c.force, c.env,
                            c.start, c.held, r, twin, calm)
    /\ pend' = [pend EXCEPT ![p] = NoPend]
    /\ lastOp' = NoOp
    /\ UNCHANGED <<now, scans>>
    /\ UNCHANGED nonCliVars

\* the longest the quick action waits for osascript to show a notification
\* (vt_quick_action.py 31, subprocess.run(..., timeout=5))
NotifyTimeout == 5
\* the seconds the "Scanning ..." notification takes
NotifyWaits == {0, NotifyTimeout}

\* vt_quick_action.py 43-62: the quick action reads the API key and stops
\* when it finds none; otherwise it sends the "Scanning ..." notification
\* and waits until that has been shown
QuickScan(p, content, env, showing) ==
    /\ MayBegin(p, content, env)
    /\ IF ~HasApiKey
       THEN \E r \in {ScanDone(Failed("API key not configured"), files,
                               lastStore, <<>>, FALSE, FALSE, FALSE)} :
                /\ cli' = Ended("quick", content, TRUE, FALSE, env,
                                now, lastStore[Sha256(content)], r, r, r)
                /\ UNCHANGED pend
       ELSE /\ MayTake(showing)
            /\ pend' = [pend EXCEPT ![p] =
                          Pending("notify", content, TRUE, FALSE, env, showing)]
            /\ UNCHANGED cli
    /\ scans' = scans + 1
    /\ lastOp' = NoOp
    /\ UNCHANGED <<files, now, lastStore>>
    /\ UNCHANGED nonCliVars

\* vt_quick_action.py 64-73: the notification has been shown; the quick
\* action hashes the file and looks it up in the cache, reports a hit, and
\* on a miss calls scan_file and is busy until that returns
QuickLookup(p) ==
    /\ cli = NoScan
    /\ pend[p].entry = "notify"
    /\ now = pend[p].due
    /\ LET c == pend[p]
           h == Sha256(c.content)
           lk == GetCachedResult(files, h, now, DefaultMaxAgeDays, c.env.readFails)
       IN  IF ~c.env.exists \/ Truthy(lk.ret)
           THEN \E r \in {QuickScanOne(files, lastStore, now, c.content, c.env)} :
                    /\ files' = r.fs
                    /\ cli' = Ended("quick", c.content, TRUE, FALSE, c.env,
                                    now, lastStore[h], r, r, r)
                    /\ pend' = [pend EXCEPT ![p] = NoPend]
           ELSE /\ files' = lk.fs
                /\ pend' = [pend EXCEPT ![p] =
                              Pending("quick", c.content, TRUE, FALSE, c.env,
                                      ScanFileRun(FALSE, c.env).took)]
                /\ UNCHANGED cli
    /\ lastOp' = NoOp
    /\ UNCHANGED <<now, lastStore, scans>>
    /\ UNCHANGED nonCliVars

\* vt_quick_action.py 72-79: scan_file has returned or raised; the payload
\* is stored, then parsed and notified
QuickScanFinish(p) ==
    /\ cli = NoScan
    /\ pend[p].entry = "quick"
    /\ now = pend[p].due
    /\ LET c == pend[p]
           h == Sha256(c.content)
       IN  \E r \in {QuickScanMiss(files, lastStore, now, h, c.env)},
              calm \in {QuickScanMiss(files, lastStore, now, h,
                                      [c.env EXCEPT !.fault = NoFault])} :
            /\ files' = r.fs
            /\ lastStore' = r.ls
            /\ cli' = Ended("quick", c.content, TRUE, FALSE, c.env,
                            c.start, c.held, r, r, calm)
    /\ pend' = [pend EXCEPT ![p] = NoPend]
    /\ lastOp' = NoOp
    /\ UNCHANGED <<now, scans>>
    /\ UNCHANGED nonCliVars

\* the result has been displayed and the command is over
EndScan ==
    /\ cli # NoScan
    /\ cli' = NoScan
    /\ UNCHANGED <<pend, scans>>
    /\ UNCHANGED cacheVars
    /\ UNCHANGED nonCliVars

\* the clock does not pass the moment a busy invocation's scan_file returns
\* before that invocation has taken its next step
InTime(t) == \A p \in Busy : t <= pend[p].due

\* another command clears the cache; time passes
ClearBetween == cli = NoScan /\ ClearOp
SecondBetween == cli = NoScan /\ InTime(now + 1) /\ TickSecond
WindowBetween == cli = NoScan /\ InTime(now + Window) /\ TickWindow

\* the sleeps of a busy invocation pass: the clock reaches the moment the
\* first of the busy invocations' scan_file calls returns
WaitPasses ==
    /\ cli = NoScan
    /\ \E p \in Busy :
        /\ pend[p].due > now
        /\ InTime(pend[p].due)
        /\ now' = pend[p].due
    /\ lastOp' = NoOp
    /\ UNCHANGED <<files, lastStore, cli, pend, scans>>
    /\ UNCHANGED nonCliVars

InitCli == ScanInit /\ ParseIdle /\ CacheIdle /\ CliIdle /\ ConcIdle /\ BatchIdle
    /\ RaceIdle
    /\ osenv \in EnvValues
    /\ umask = 18
    /\ cfg = NoCfg
    /\ setop = NoSet
    /\ lastGet = NoGet
    /\ fmode = [path \in CachePaths |-> 0]

NextCli ==
    \/ \E p \in Procs, content \in Contents, useCache \in BOOLEAN,
          force_upload \in BOOLEAN :
         \E env \in Envs(Sha256(content)) :
            CliScan(p, content, useCache, force_upload, env)
    \/ \E p \in Procs : CliScanFinish(p)
    \/ \E p \in Procs, content \in Contents, showing \in NotifyWaits :
         \E env \in Envs(Sha256(content)) :
            QuickScan(p, content, env, showing)
    \/ \E p \in Procs : QuickLookup(p)
    \/ \E p \in Procs : QuickScanFinish(p)
    \/ EndScan
    \/ ClearBetween
    \/ SecondBetween
    \/ WindowBetween
    \/ WaitPasses

SpecCli == InitCli /\ [][NextCli]_vars


\* the scan command has just scanned a file
JustScanned == cli.entry = "scan"
\* what the command reports for the file: the verdict summary or the error
Reports(o) == [kind |-> o.kind, summary |-> o.summary, err |-> o.err]
\* the cache held, when the scan began, an entry for the file's hash that
\* was stored in full no longer ago than the expiry window
HeldFresh ==
    cli.held.ok /\ cli.at - cli.held.at <= DefaultMaxAgeDays * 24 * 60 * 60

(* C5: with force_upload the scan never issues a hash-lookup request, its
   first remote request is the upload (the upload-URL request of a large
   file is the upload's first step), whether or not the remote service
   holds a report for the hash, and the scan command does not look the
   hash up in the local cache either. *)
C5_ForceSkipsLookups ==
    (JustScanned /\ cli.force) =>
        /\ \A i \in 1..Len(cli.reqs) : cli.reqs[i] # "lookup"
        /\ (cli.reqs # <<>> => cli.reqs[1] \in {"upload_url", "post"})
        /\ ~cli.cacheRead
        /\ ~cli.hit

\* a forced scan, with the cache enabled, of a file the remote service holds
\* a report for and the cache holds a fresh entry for: it uploaded and
\* reported the verdict of the new analysis
C5_Witness ==
    /\ JustScanned /\ cli.force /\ cli.useCache
    /\ cli.remoteHas
    /\ HeldFresh
    /\ cli.reqs = <<"post", "poll">>
    /\ cli.outcome.kind = "verdict"
    /\ cli.outcome.uploaded

(* C8 as stated: whatever scans came before, the outcome the scan command
   reports for a file with the cache enabled is the outcome it reports with
   the cache disabled against the same remote-service behaviour. *)
C8_CacheTransparent ==
    (JustScanned /\ cli.useCache) => Reports(cli.outcome) = Reports(cli.twin)

(* C8: a scan with the cache enabled reports what the same scan with
   --no-cache reports whenever it misses the cache; when it hits, it reports
   what parse_results makes of the payload an earlier scan stored for that
   hash at most the expiry window before, which need not be what the remote
   service reports now. *)
C8_CacheChangesOnlyFreshHits ==
    (JustScanned /\ cli.useCache) =>
        IF cli.hit
        THEN /\ HeldFresh
             /\ Reports(cli.outcome) =
                    Reports(Reported(ParseResults(cli.held.payload), FALSE))
        ELSE Reports(cli.outcome) = Reports(cli.twin)

\* a scan that hit the cache and reported a verdict that differs from the
\* verdict the same scan reports without the cache
C8_Witness ==
    /\ JustScanned /\ cli.useCache /\ cli.hit
    /\ cli.outcome.kind = "verdict"
    /\ cli.twin.kind = "verdict"
    /\ cli.outcome.summary.threat_level # cli.twin.summary.threat_level


(***************************************************************************)
(* SpecConc: two invocations run cache operations on one cache directory,  *)
(* their system calls interleaved in every order.  The directory starts    *)
(* with an entry for each hash, stored in full a second ago.               *)
(***************************************************************************)
MaxConcOps == 3

ConcPayloads(h) == {ReportBody(h, CleanStats), ReportBody(h, BadStats)}
FirstPayload(h) == ReportBody(h, CleanStats)
FirstEntry(h) == File(0, JsonDump(FirstPayload(h)))

CanBegin(p) == proc[p].pc \in {"idle", "done", "failed"} /\ ops < MaxConcOps

\* config.get_cached_result(h) is called (line 171)
BeginLookup(p, h) ==
    /\ CanBegin(p)
    /\ proc' = [proc EXCEPT ![p] = Call("lookup", h, "exists", Null)]
    /\ ops' = ops + 1
    /\ touched' = [touched EXCEPT ![h] = TRUE]
    /\ UNCHANGED <<files, now, gen, orphans, storedFull>>
    /\ UNCHANGED nonConcVars

\* line 173: cache_file.exists()
LookupExists(p) ==
    /\ proc[p].op = "lookup" /\ proc[p].pc = "exists"
    /\ proc' = [proc EXCEPT ![p] =
                    IF files[GetCachePath(proc[p].h)].exists
                    THEN [@ EXCEPT !.pc = "stat"]
                    ELSE Returned(@, Null)]
    /\ UNCHANGED <<files, now, ops, gen, orphans, storedFull, touched>>
    /\ UNCHANGED nonConcVars

\* lines 178-181: cache_file.stat() and the age test, outside any try
LookupStat(p) ==
    /\ proc[p].op = "lookup" /\ proc[p].pc = "stat"
    /\ LET f == files[GetCachePath(proc[p].h)] IN
        proc' = [proc EXCEPT ![p] =
                    IF ~f.exists THEN Raised(@, "FileNotFoundError")
                    ELSE IF now - f.mtime > MaxAgeSeconds(DefaultMaxAgeDays)
                    THEN [@ EXCEPT !.pc = "unlink"]
                    ELSE [@ EXCEPT !.pc = "read"]]
    /\ UNCHANGED <<files, now, ops, gen, orphans, storedFull, touched>>
    /\ UNCHANGED nonConcVars

\* lines 183-184: cache_file.unlink(), outside any try
LookupUnlink(p) ==
    /\ proc[p].op = "lookup" /\ proc[p].pc = "unlink"
    /\ LET path == GetCachePath(proc[p].h) IN
        IF files[path].exists
        THEN /\ files' = [files EXCEPT ![path] = NoFile]
             /\ gen' = [gen EXCEPT ![path] = @ + 1]
             /\ orphans' = [orphans EXCEPT ![path] = Append(@, files[path].text)]
             /\ proc' = [proc EXCEPT ![p] = Returned(@, Null)]
        ELSE /\ proc' = [proc EXCEPT ![p] = Raised(@, "FileNotFoundError")]
             /\ UNCHANGED <<files, gen, orphans>>
    /\ UNCHANGED <<now, ops, storedFull, touched>>
    /\ UNCHANGED nonConcVars

\* f.read() with no size, which json.load calls (line 189), reads the file to
\* its end through a buffer sized from the file: it first takes the size of
\* the file (fstat), and its first read() asks for one unit more than that
\* size (a block when the size was 0); a buffer that has been filled is enlarged by a block, or
\* by its own size and a thirty-second of a block when that is more.  chunk
\* is the block in the unit the text is counted in.  Cache texts are counted
\* in tokens, a block being BlockTokens of them; the texts read stay below
\* the eight blocks beyond which a buffer grows by an eighth only.
FirstBufferSize(size, chunk) == IF size > 0 THEN size + 1 ELSE chunk
NewBufferSize(currentsize, chunk) ==
    currentsize + (IF chunk \div 32 + currentsize > chunk
                   THEN chunk \div 32 + currentsize ELSE chunk)

\* lines 187-188: open(cache_file, "r"); the IOError of a file that is gone
\* is caught (line 190).  The descriptor names the file, not the path.
LookupOpen(p) ==
    /\ proc[p].op = "lookup" /\ proc[p].pc = "read"
    /\ LET path == GetCachePath(proc[p].h) IN
        proc' = [proc EXCEPT ![p] =
                    IF files[path].exists
                    THEN [@ EXCEPT !.pc = "fstat", !.gen = gen[path]]
                    ELSE Returned(@, Null)]
    /\ UNCHANGED <<files, now, ops, gen, orphans, storedFull, touched>>
    /\ UNCHANGED nonConcVars

\* the text of the file a descriptor opened at generation g of path names:
\* the entry while it is linked, what was unlinked otherwise
TextOf(path, g) ==
    IF g = gen[path] THEN files[path].text ELSE orphans[path][g + 1]

\* line 189: json.load calls f.read(), which takes the size the open file
\* has now to size its buffer
LookupFstat(p) ==
    /\ proc[p].op = "lookup" /\ proc[p].pc = "fstat"
    /\ LET c == proc[p] IN
        proc' = [proc EXCEPT ![p] =
                    [@ EXCEPT !.pc = "load",
                              !.buf = FirstBufferSize(
                                         Len(TextOf(GetCachePath(c.h), c.gen)),
                                         BlockTokens)]]
    /\ UNCHANGED <<files, now, ops, gen, orphans, storedFull, touched>>
    /\ UNCHANGED nonConcVars

\* read(fd, n) at the descriptor's offset off: at most n units of what the
\* file holds beyond the offset now, <<>> at or past the end of the file
ReadUpTo(text, off, n) ==
    SubSeq(text, off + 1, IF off + n < Len(text) THEN off + n ELSE Len(text))

\* lines 189-191: json.load reads the open file, one read() per step, each
\* asking for the room left in the buffer; the read that returns nothing
\* ends the reading, and what was read is decoded, JSONDecodeError caught
LookupRead(p) ==
    /\ proc[p].op = "lookup" /\ proc[p].pc = "load"
    /\ LET c == proc[p]
           size == IF Len(c.got) >= c.buf
                   THEN NewBufferSize(Len(c.got), BlockTokens)
                   ELSE c.buf
           block == ReadUpTo(TextOf(GetCachePath(c.h), c.gen), c.off,
                             size - Len(c.got))
           r == JsonLoad(c.got)
       IN  proc' = [proc EXCEPT ![p] =
                        IF block # <<>>
                        THEN [@ EXCEPT !.got = @ \o block,
                                       !.off = @ + Len(block),
                                       !.buf = size]
                        ELSE IF r.ok
                        THEN Returned([@ EXCEPT !.got = <<>>, !.off = 0,
                                                !.buf = 0], r.val)
                        ELSE Returned([@ EXCEPT !.got = <<>>, !.off = 0,
                                                !.buf = 0], Null)]
    /\ UNCHANGED <<files, now, ops, gen, orphans, storedFull, touched>>
    /\ UNCHANGED nonConcVars

\* config.cache_result(h, payload) is called (line 201)
BeginStore(p, h, payload) ==
    /\ CanBegin(p)
    /\ proc' = [proc EXCEPT ![p] = Call("store", h, "open", payload)]
    /\ ops' = ops + 1
    /\ touched' = [touched EXCEPT ![h] = TRUE]
    /\ UNCHANGED <<files, now, gen, orphans, storedFull>>
    /\ UNCHANGED nonConcVars

\* line 204: open(cache_file, "w") creates the file or truncates it
StoreOpen(p) ==
    /\ proc[p].op = "store" /\ proc[p].pc = "open"
    /\ LET path == GetCachePath(proc[p].h) IN
        /\ files' = [files EXCEPT ![path] = File(now, <<>>)]
        /\ proc' = [proc EXCEPT ![p] = [@ EXCEPT !.pc = "write", !.off = 0,
                                                  !.gen = gen[path]]]
    /\ UNCHANGED <<now, ops, gen, orphans, storedFull, touched>>
    /\ UNCHANGED nonConcVars

\* line 205: one flush of json.dump's text at the descriptor's offset; the
\* last one ends the call.  A file unlinked since the open is written to
\* no longer under its name.
StoreWrite(p) ==
    /\ proc[p].op = "store" /\ proc[p].pc = "write"
    /\ LET c == proc[p]
            path == GetCachePath(c.h)
            text == JsonDump(c.payload)
            block == NextBlock(text, c.off)
            last == c.off + Len(block) = Len(text)
        IN  /\ files' = IF gen[path] = c.gen
                        THEN [files EXCEPT ![path] =
                                File(now, Overlay(files[path].text, c.off, block))]
                        ELSE files
            /\ orphans' = IF gen[path] = c.gen THEN orphans
                          ELSE [orphans EXCEPT ![path][c.gen + 1] =
                                    Overlay(@, c.off, block)]
            /\ proc' = [proc EXCEPT ![p] =
                            IF last
                            THEN Returned([@ EXCEPT !.off = Len(text)], Null)
                            ELSE [@ EXCEPT !.off = c.off + Len(block)]]
            /\ storedFull' = IF last
                             THEN [storedFull EXCEPT ![c.h] = @ \cup {c.payload}]
                             ELSE storedFull
    /\ UNCHANGED <<now, ops, gen, touched>>
    /\ UNCHANGED nonConcVars

\* config.clear_cache() is called: line 218, the glob lists the entries
BeginClear(p) ==
    /\ CanBegin(p)
    /\ LET found == {path \in CachePaths : files[path].exists} IN
        proc' = [proc EXCEPT ![p] =
                    IF found = {}
                    THEN Returned(Call("clear", "", "unlinking", Null), Num(0))
                    ELSE [Call("clear", "", "unlinking", Null) EXCEPT !.todo = found]]
    /\ ops' = ops + 1
    /\ touched' = [h \in Hashes |-> TRUE]
    /\ UNCHANGED <<files, now, gen, orphans, storedFull>>
    /\ UNCHANGED nonConcVars

\* lines 219-223: unlink the next listed entry, IOError caught
ClearUnlink(p, path) ==
    /\ proc[p].op = "clear" /\ proc[p].pc = "unlinking"
    /\ path \in proc[p].todo
    /\ LET c == proc[p]
            n == IF files[path].exists THEN c.count + 1 ELSE c.count
            left == c.todo \ {path}
        IN  /\ files' = [files EXCEPT ![path] = NoFile]
            /\ gen' = IF files[path].exists THEN [gen EXCEPT ![path] = @ + 1]
                      ELSE gen
            /\ orphans' = IF files[path].exists
                          THEN [orphans EXCEPT ![path] = Append(@, files[path].text)]
                          ELSE orphans
            /\ proc' = [proc EXCEPT ![p] =
                            IF left = {}
                            THEN Returned([@ EXCEPT !.todo = left, !.count = n], Num(n))
                            ELSE [@ EXCEPT !.todo = left, !.count = n]]
    /\ UNCHANGED <<now, ops, storedFull, touched>>
    /\ UNCHANGED nonConcVars

\* the expiry window passes
ConcWindow == TickWindow

InitConc ==
    /\ ScanInit /\ ParseIdle /\ CliIdle
    /\ files = [path \in CachePaths |->
                    IF path = GetCachePath("h1") THEN FirstEntry("h1")
                    ELSE FirstEntry("h2")]
    /\ now = 1
    /\ lastStore = [h \in Hashes |-> NoStore]
    /\ lastOp = NoOp
    /\ proc = [p \in Procs |-> NoCall]
    /\ ops = 0
    /\ gen = [path \in CachePaths |-> 0]
    /\ orphans = [path \in CachePaths |-> <<>>]
    /\ storedFull = [h \in Hashes |-> {FirstPayload(h)}]
    /\ touched = [h \in Hashes |-> FALSE]
    /\ BatchIdle
    /\ ConfIdle
    /\ RaceIdle

NextConc ==
    \/ \E p \in Procs, h \in Hashes : BeginLookup(p, h)
    \/ \E p \in Procs : LookupExists(p)
    \/ \E p \in Procs : LookupStat(p)
    \/ \E p \in Procs : LookupUnlink(p)
    \/ \E p \in Procs : LookupOpen(p)
    \/ \E p \in Procs : LookupFstat(p)
    \/ \E p \in Procs : LookupRead(p)
    \/ \E p \in Procs, h \in Hashes : \E payload \in ConcPayloads(h) :
            BeginStore(p, h, payload)
    \/ \E p \in Procs : StoreOpen(p)
    \/ \E p \in Procs : StoreWrite(p)
    \/ \E p \in Procs : BeginClear(p)
    \/ \E p \in Procs, path \in CachePaths : ClearUnlink(p, path)
    \/ ConcWindow

SpecConc == InitConc /\ [][NextConc]_vars

\* no cache operation raised an error to the scan that called it
NoCacheOpFailed == \A p \in Procs : proc[p].err = ""
\* a lookup that returned a payload returned one stored in full under its hash
LookupsReturnStored ==
    \A p \in Procs :
        (proc[p].op = "lookup" /\ proc[p].pc = "done" /\ proc[p].ret # Null)
            => proc[p].ret \in storedFull[proc[p].h]
\* the entry of a hash no operation was aimed at is as it was
OtherEntriesIntact ==
    \A h \in Hashes : ~touched[h] => files[GetCachePath(h)] = FirstEntry(h)

(* C9 as stated: under every interleaving of the invocations' cache lookups,
   stores, lazy expiries and clears, each lookup reports a miss or returns a
   payload some invocation stored in full under that hash, no cache
   operation fails the scan with an error, and no entry of another hash is
   damaged. *)
C9_RacesAreBenign ==
    /\ NoCacheOpFailed
    /\ LookupsReturnStored
    /\ OtherEntriesIntact

\* a file has just been scanned, by the scan command or the quick action
JustRan == cli.entry \in {"scan", "quick"}
\* the report URL of a content digest
ReportUrl(h) == <<PermalinkPrefix, Str(h)>>

(* C12 as stated: every scan that ends with a verdict summary, whether its
   payload came from the hash lookup, from upload and polling or from the
   cache, reports as URL the report URL of the scanned file's digest. *)
C12_PermalinkIsOfDigest ==
    (JustRan /\ cli.outcome.kind = "verdict") =>
        cli.outcome.summary.permalink = ReportUrl(cli.h)

\* the scan just made called cache_result and the store failed
StoreFailed == JustRan /\ cli.cacheWrote /\ cli.fault # NoFault

(* C19: a failure to persist a cache entry is never fatal: when cache_result
   fails it returns without raising, and the scan of the file ends with the
   outcome it would have reported had the store succeeded; for the scan
   command that outcome is a verdict summary. *)
C19_StoreFailureNotFatal ==
    StoreFailed =>
        /\ cli.outcome = cli.calm
        /\ cli.outcome.err # "IOError"
        /\ (cli.entry = "scan") => cli.outcome.kind = "verdict"

\* C19 witness: a scan's store failed while writing and left an entry that
\* does not decode; the scan reported its verdict
C19_Witness ==
    /\ StoreFailed /\ cli.entry = "scan" /\ cli.fault.kind = "write"
    /\ files[GetCachePath(cli.h)].exists
    /\ ~JsonLoad(files[GetCachePath(cli.h)].text).ok
    /\ cli.outcome.kind = "verdict"
    /\ cli.outcome.summary.threat_level = "CLEAN"

\* the payload a cache entry decodes to, Null when there is none
EntryPayload(h) ==
    LET f == files[GetCachePath(h)]
        r == JsonLoad(f.text)
    IN  IF f.exists /\ r.ok THEN r.val ELSE Null

(* C20 as stated: on every entry point that scans and caches, a payload is
   stored only after parse_results accepted it, so in every reachable state
   no cache entry holds a payload that parse_results rejects, and a later
   scan of the same file never fails from the cache. *)
C20_CacheHoldsOnlyParsed ==
    /\ \A h \in Hashes :
          Truthy(EntryPayload(h)) => ParseResults(EntryPayload(h)).ok
    /\ (JustRan /\ cli.hit) => cli.outcome.kind = "verdict"

\* the step ends the scan command's pass over one file
ScanStep == cli = NoScan /\ cli'.entry = "scan"
\* the step is the cache lookup of a scan command's pass run with --no-cache
NoCacheBegins ==
    \E p \in Procs :
        pend[p] = NoPend /\ pend'[p].entry = "scan" /\ ~pend'[p].useCache

(* C22: in the scan command with the cache enabled and no forced upload, a
   file whose cache lookup returns a payload is reported without any remote
   request (lookup, upload-URL, upload or poll) and with the cache directory
   left as it was, so the remote client is only invoked after a miss; with
   --no-cache the cache is neither read nor written. *)
C22_RemoteOnlyOnMiss ==
    [][ScanStep =>
          /\ cli'.hit =>
                /\ cli'.useCache /\ ~cli'.force
                /\ cli'.reqs = <<>>
                /\ ~cli'.cacheWrote
                /\ files' = files
                /\ lastStore' = lastStore
          /\ cli'.reqs # <<>> => ~cli'.hit
          /\ ~cli'.useCache =>
                /\ ~cli'.cacheRead /\ ~cli'.hit /\ ~cli'.cacheWrote
                /\ files' = files
                /\ lastStore' = lastStore]_vars
    /\ [][NoCacheBegins => files' = files /\ lastStore' = lastStore]_vars

\* a scan with the cache enabled and no forced upload, of a file the remote
\* service holds a report for, that hit the cache and made no request
C22_Witness ==
    /\ JustScanned /\ cli.useCache /\ ~cli.force
    /\ cli.cacheRead /\ cli.hit
    /\ HeldFresh
    /\ cli.remoteHas
    /\ cli.reqs = <<>>
    /\ cli.outcome.kind = "verdict"
    /\ files[GetCachePath(cli.h)].exists

(***************************************************************************)
(* SpecBatch: one run of the scan command (cli.py 121-223) over the files  *)
(* it was given.  A pass of the loop body is one step when the cache       *)
(* answers; when scan_file is called the clock runs second by second until *)
(* it returns, and other invocations act on the cache directory meanwhile. *)
(***************************************************************************)
\* most files in one run
MaxBatch == 3

\* what a file of the batch meets: it is known and clean, unknown and found
\* malicious after upload, the lookup fails, the report is malformed, or the
\* file has gone by the time it is hashed
Meets == {"known", "unknown", "lookup_error", "malformed", "gone"}
BatchEnv(h, meets) ==
    CASE meets = "unknown" ->
            [BaseEnv(h) EXCEPT !.lookup = NotFound,
                               !.poll = [Completed(BadStats) EXCEPT !.sleeps = 1,
                                          !.took = Elapsed(1, 0)]]
      [] meets = "lookup_error" -> [BaseEnv(h) EXCEPT !.lookup = Resp(500, EmptyObj)]
      [] meets = "malformed" ->
            [BaseEnv(h) EXCEPT !.lookup = Resp(200, Obj([data |-> EmptyObj]))]
      [] meets = "gone" -> [BaseEnv(h) EXCEPT !.exists = FALSE]
      [] OTHER -> BaseEnv(h)

BatchItems == [content : Contents, meets : Meets]

Batches == UNION {[1..n -> BatchItems] : n \in 0..MaxBatch}

\* lines 131-152: get_scanner, expand_paths, the empty-list return
Started(configured, items, useCache, force_upload) ==
    IF ~configured
    THEN [NoRun EXCEPT !.phase = "done", !.exit = 1]
    ELSE IF items = <<>>
    THEN [NoRun EXCEPT !.phase = "done", !.configured = TRUE, !.exit = 0]
    ELSE [phase |-> "scanning", configured |-> TRUE, items |-> items,
          useCache |-> useCache, force |-> force_upload, idx |-> 1,
          results |-> <<>>, errors |-> <<>>, exit |-> -1, due |-> 0]

\* lines 155-182: the pass for file r.idx ended with outcome
AfterFileStopsOnError(r, outcome) ==
    IF outcome.kind = "verdict"
    THEN [r EXCEPT !.results = Append(@, [index |-> r.idx, outcome |-> outcome]),
                   !.idx = @ + 1,
                   !.phase = IF r.idx = Len(r.items) THEN "display" ELSE "scanning"]
    ELSE [r EXCEPT !.errors = Append(@, [index |-> r.idx, err |-> outcome.err]),
                   !.idx = @ + 1,
                   !.phase = "display"]

AfterFile(r, outcome) ==
    IF outcome.kind = "verdict"
    THEN [r EXCEPT !.results = Append(@, [index |-> r.idx, outcome |-> outcome]),
                   !.idx = @ + 1,
                   !.phase = IF r.idx = Len(r.items) THEN "display" ELSE "scanning"]
    ELSE [r EXCEPT !.errors = Append(@, [index |-> r.idx, err |-> outcome.err]),
                   !.idx = @ + 1,
                   !.phase = IF r.idx = Len(r.items) THEN "display" ELSE "scanning"]

\* the command is started
StartScan ==
    /\ cmd.phase = "idle"
    /\ \E configured \in BOOLEAN, items \in Batches,
          useCache \in BOOLEAN, force_upload \in BOOLEAN :
            cmd' = Started(configured, items, useCache, force_upload)
    /\ UNCHANGED <<files, now, lastStore>>
    /\ UNCHANGED nonBatchVars

\* the file the loop is at, and what it meets
BatchItem == cmd.items[cmd.idx]
BatchHash == Sha256(BatchItem.content)
BatchMeets == BatchEnv(BatchHash, BatchItem.meets)

\* lines 155-166: the loop takes the next file, hashes it and looks it up in
\* the cache; a hit is parsed and reported, a file that has gone is an error,
\* and on a miss scan_file is called and the command waits for it
ScanNext ==
    /\ cmd.phase = "scanning"
    /\ LET lk == CliCacheCheck(files, now, cmd.useCache, cmd.force, BatchHash,
                               BatchMeets)
       IN  IF ~BatchMeets.exists \/ Truthy(lk.ret)
           THEN \E r \in {CliScanOne(files, lastStore, now, cmd.useCache,
                                     cmd.force, BatchItem.content, BatchMeets)} :
                    /\ files' = r.fs
                    /\ cmd' = AfterFile(cmd, r.outcome)
           ELSE /\ files' = lk.fs
                /\ cmd' = [cmd EXCEPT !.phase = "waiting",
                              !.due = now + ScanFileRun(cmd.force, BatchMeets).took]
    /\ UNCHANGED <<now, lastStore>>
    /\ UNCHANGED nonBatchVars

\* line 169: a second passes while scan_file is in its requests and sleeps
\* (get_analysis line 160)
ScanWaits ==
    /\ cmd.phase = "waiting"
    /\ now < cmd.due
    /\ now' = now + 1
    /\ UNCHANGED <<files, lastStore, cmd>>
    /\ UNCHANGED nonBatchVars

\* lines 169-182: scan_file returns or raises once its requests and sleeps
\* are over; the payload is parsed, stored and kept for display
ScanReturns ==
    /\ cmd.phase = "waiting"
    /\ now = cmd.due
    /\ \E r \in {CliScanMiss(files, lastStore, now, cmd.useCache, cmd.force,
                              BatchHash, BatchMeets)} :
        /\ files' = r.fs
        /\ lastStore' = r.ls
        /\ cmd' = [AfterFile(cmd, r.outcome) EXCEPT !.due = 0]
    /\ UNCHANGED now
    /\ UNCHANGED nonBatchVars

\* while the command waits for scan_file, another invocation stores a report
\* for the same file or clears the cache, at the time the clock then shows
OtherInvocation ==
    /\ cmd.phase = "waiting"
    /\ \/ ClearOp
       \/ \E st \in {CleanStats, BadStats} :
            StoreOp(BatchHash, ReportBody(BatchHash, st), NoFault)

\* lines 184-219: the results are displayed and the command returns
FinishScan ==
    /\ cmd.phase = "display"
    /\ cmd' = [cmd EXCEPT !.phase = "done", !.exit = 0]
    /\ UNCHANGED <<files, now, lastStore>>
    /\ UNCHANGED nonBatchVars

InitBatch == ScanInit /\ ParseIdle /\ CacheIdle /\ CliIdle /\ ConcIdle /\ BatchIdle
    /\ ConfIdle
    /\ RaceIdle

NextBatch ==
    \/ StartScan
    \/ ScanNext
    \/ ScanWaits
    \/ ScanReturns
    \/ OtherInvocation
    \/ FinishScan

SpecBatch == InitBatch /\ [][NextBatch]_vars

\* the files whose pass of the loop has ended
Passed == 1..(cmd.idx - 1)
ResultIndexes == {cmd.results[j].index : j \in 1..Len(cmd.results)}
ErrorIndexes == {cmd.errors[j].index : j \in 1..Len(cmd.errors)}

(* C14: the files of a batch are processed one at a time in the order
   supplied; an error while scanning a file is reported for that file only,
   every later file is still scanned, and every file that succeeded appears
   in the results, in the supplied order. *)
C14_BatchToleratesFailures ==
    /\ (cmd.phase \in {"scanning", "waiting", "display"}) =>
          /\ ResultIndexes \cup ErrorIndexes = Passed
          /\ ResultIndexes \cap ErrorIndexes = {}
          /\ Len(cmd.results) + Len(cmd.errors) = cmd.idx - 1
          /\ \A j \in 1..(Len(cmd.results) - 1) :
                cmd.results[j].index < cmd.results[j + 1].index
          /\ \A j \in 1..(Len(cmd.errors) - 1) :
                cmd.errors[j].index < cmd.errors[j + 1].index
    /\ (cmd.phase = "display") => cmd.idx - 1 = Len(cmd.items)

\* C14 witness: three files, the second failed; the first and the third are
\* in the results in that order
C14_Witness ==
    /\ cmd.phase = "display"
    /\ Len(cmd.items) = 3
    /\ ErrorIndexes = {2}
    /\ Len(cmd.results) = 2
    /\ cmd.results[1].index = 1 /\ cmd.results[2].index = 3

(* C15 as stated: the scan command ends with a non-zero exit status whenever
   the credential is not configured or the scan of at least one file failed,
   and with status zero only if no such failure occurred. *)
C15_ExitReflectsFailure ==
    (cmd.phase = "done") =>
        ((cmd.exit # 0) <=> (~cmd.configured \/ cmd.errors # <<>>))

(***************************************************************************)
(* SpecConfig: the credential is set and read, settings are set and cache  *)
(* entries stored, one system call of a writer per step; the environment   *)
(* variable and the umask are those of the invocation making the call.     *)
(***************************************************************************)
ApiKeys == {Str(""), Str("k1"), Str("k2")}
SettingValues == {Str("on"), Str("off")}
WriteFaults == StoreFaults \ {[kind |-> "open", kept |-> 0]}

\* another invocation, with its own environment
NewInvocation(e, mask) ==
    /\ setop.pc = "idle"
    /\ osenv' = e
    /\ umask' = mask
    /\ lastGet' = NoGet
    /\ UNCHANGED <<cfg, setop, fmode, files, lastStore>>
    /\ UNCHANGED nonConfVars

\* lines 71-81 / 120-130: the record is loaded and updated in memory; only
\* JSONDecodeError is caught while loading
BeginSet(op, key, value, readFails) ==
    /\ setop.pc = "idle"
    /\ setop' = IF cfg.exists /\ readFails
                THEN [op |-> op, pc |-> "idle", data |-> Null, err |-> "IOError"]
                ELSE LET u == Updated(cfg, key, value) IN
                     IF u.err # ""
                     THEN [op |-> op, pc |-> "idle", data |-> Null, err |-> u.err]
                     ELSE [op |-> op, pc |-> "open", data |-> u.ret, err |-> ""]
    /\ lastGet' = NoGet
    /\ UNCHANGED <<osenv, umask, cfg, fmode, files, lastStore>>
    /\ UNCHANGED nonConfVars

\* set_api_key(api_key) is called
BeginSetApiKey(key, readFails) == BeginSet("set_api_key", "api_key", key, readFails)
\* set_setting("notifications", value) is called
BeginSetSetting(value, readFails) ==
    BeginSet("set_setting", "notifications", value, readFails)

\* lines 84 / 133: open(config_file, "w") creates the file or truncates it
SetOpen ==
    /\ setop.pc = "open"
    /\ cfg' = [exists |-> TRUE,
               mode |-> IF cfg.exists THEN cfg.mode ELSE Created(umask),
               text |-> <<>>]
    /\ setop' = [setop EXCEPT !.pc = "write"]
    /\ lastGet' = NoGet
    /\ UNCHANGED <<osenv, umask, fmode, files, lastStore>>
    /\ UNCHANGED nonConfVars

\* lines 85 / 134: json.dump; an IOError leaves the call, chmod not reached
SetWrite(fault) ==
    /\ setop.pc = "write"
    /\ cfg' = [cfg EXCEPT !.text =
                  IF fault = NoFault THEN JsonDump(setop.data)
                  ELSE Truncated(JsonDump(setop.data), fault.kept)]
    /\ setop' = IF fault = NoFault THEN [setop EXCEPT !.pc = "chmod"]
                ELSE [setop EXCEPT !.pc = "idle", !.err = "IOError"]
    /\ lastGet' = NoGet
    /\ UNCHANGED <<osenv, umask, fmode, files, lastStore>>
    /\ UNCHANGED nonConfVars

\* lines 88 / 137: config_file.chmod(0o600)
SetChmod ==
    /\ setop.pc = "chmod"
    /\ cfg' = [cfg EXCEPT !.mode = OwnerOnly]
    /\ setop' = [setop EXCEPT !.pc = "idle"]
    /\ lastGet' = NoGet
    /\ UNCHANGED <<osenv, umask, fmode, files, lastStore>>
    /\ UNCHANGED nonConfVars

\* get_api_key() is called
CallGetApiKey(readFails) ==
    /\ \E k \in {GetApiKey(osenv, cfg, readFails)} :
        lastGet' = [op |-> "get_api_key", ret |-> k.ret, configured |-> FALSE,
                    err |-> k.err, readFails |-> readFails]
    /\ UNCHANGED <<osenv, umask, cfg, setop, fmode, files, lastStore>>
    /\ UNCHANGED nonConfVars

\* is_configured() is called; ret is what get_api_key returns to it
CallIsConfigured(readFails) ==
    /\ \E k \in {GetApiKey(osenv, cfg, readFails)},
          c \in {IsConfigured(osenv, cfg, readFails)} :
        lastGet' = [op |-> "is_configured", ret |-> k.ret, configured |-> c.ret,
                    err |-> c.err, readFails |-> readFails]
    /\ UNCHANGED <<osenv, umask, cfg, setop, fmode, files, lastStore>>
    /\ UNCHANGED nonConfVars

\* cache_result(h, payload): the entry is created by open(cache_file, "w")
\* or rewritten in place
StoreEntry(h, payload) ==
    /\ files' = CacheResult(files, h, payload, now, NoFault)
    /\ lastStore' = Stored(lastStore, h, payload, now, NoFault)
    /\ fmode' = [fmode EXCEPT ![GetCachePath(h)] =
                    IF files[GetCachePath(h)].exists THEN @ ELSE Created(umask)]
    /\ lastGet' = NoGet
    /\ UNCHANGED <<osenv, umask, cfg, setop>>
    /\ UNCHANGED nonConfVars

InitConfig ==
    /\ ScanInit /\ ParseIdle /\ CacheIdle /\ CliIdle /\ ConcIdle /\ BatchIdle
    /\ osenv \in EnvValues
    /\ umask \in Umasks
    /\ cfg = NoCfg
    /\ setop = NoSet
    /\ lastGet = NoGet
    /\ fmode = [path \in CachePaths |-> 0]
    /\ RaceIdle

NextConfig ==
    \/ \E e \in EnvValues, mask \in Umasks : NewInvocation(e, mask)
    \/ \E key \in ApiKeys, readFails \in BOOLEAN : BeginSetApiKey(key, readFails)
    \/ \E value \in SettingValues, readFails \in BOOLEAN :
            BeginSetSetting(value, readFails)
    \/ SetOpen
    \/ \E fault \in WriteFaults : SetWrite(fault)
    \/ SetChmod
    \/ \E readFails \in BOOLEAN : CallGetApiKey(readFails)
    \/ \E readFails \in BOOLEAN : CallIsConfigured(readFails)
    \/ \E h \in Hashes : StoreEntry(h, FirstPayload(h))

SpecConfig == InitConfig /\ [][NextConfig]_vars

\* the credential of the configuration record as the claim reads it: the
\* api_key of the record when the file exists and is read and decoded
RecordReadable == cfg.exists /\ ~lastGet.readFails /\ JsonLoad(cfg.text).ok
RecordCredential == DictGet(JsonLoad(cfg.text).val, "api_key", Null)
EnvSet == osenv # Null /\ osenv.v # ""

(* C16: get_api_key returns the environment variable's value whenever it is
   set and non-empty, whatever the record holds; otherwise the credential of
   the configuration record when one is readable; otherwise None; and
   is_configured is true exactly when a credential is returned. *)
C16_CredentialResolution ==
    (lastGet.op # "none") =>
        /\ lastGet.err = ""
        /\ lastGet.ret = (IF EnvSet THEN osenv
                          ELSE IF RecordReadable THEN RecordCredential
                          ELSE Null)
        /\ (lastGet.op = "is_configured") =>
              (lastGet.configured <=> (lastGet.ret # Null))

\* C16 witness: the variable is set and the record holds another credential;
\* is_configured was called and get_api_key gave it the variable's value
C16_Witness ==
    /\ lastGet.op = "is_configured"
    /\ osenv = Str("ek")
    /\ RecordReadable /\ RecordCredential = Str("k1")
    /\ lastGet.ret = Str("ek") /\ lastGet.configured

\* a file's mode grants nothing to group and others
Restricted(perm) == perm % 64 = 0

(* C17 as stated: in every reachable state, every file of the persisted
   state that exists (the configuration record and each cache entry) has
   permissions restricted to the owning user, the states between a file's
   creation and the end of the operation that writes it included. *)
C17_FilesOwnerOnly ==
    /\ cfg.exists => Restricted(cfg.mode)
    /\ \A path \in CachePaths : files[path].exists => Restricted(fmode[path])


(***************************************************************************)
(* SpecRace: the scan command's pass over one file (cli.py 155-182), one   *)
(* read() of the file per step, while another process may rewrite the      *)
(* file in place.  The file is read through three times:                   *)
(* calculate_file_hash for the cache key (cli.py 157), calculate_file_hash *)
(* again inside scan_file (vt_scanner.py 181), and the                     *)
(* open(file_path, "rb") whose bytes upload_file posts (vt_scanner.py      *)
(* 96-103).  The hash reads 4096 bytes at a time, the upload reads through *)
(* a buffer sized from the file; each pass ends when a read returns no     *)
(* bytes.                                                                  *)
(***************************************************************************)
\* what the remote service finds for content of digest h
RemoteStats(h) == IF h = "h1" THEN CleanStats ELSE BadStats

\* the offset of a descriptor that has read got from the start of the file
Offset(got) == IF got = <<>> THEN 0 ELSE got[Len(got)].hi

\* read(fd, n) at the offset after the bytes already read: at most n bytes
\* of what the file holds beyond the offset now, <<>> at or past its end
ReadBlock(content, got, n) ==
    IF Offset(got) < Size(content)
    THEN <<Run(content, Offset(got) + 1, Min(Offset(got) + n, Size(content)))>>
    ELSE <<>>

\* the block of the buffer that requests.post's f.read() reads through
SmallChunk == 2 * HashBlock

\* the scans of the file that are followed
MaxRaceScans == 2

\* cli.py 152-155: the loop takes the file
RaceStart(useCache, force_upload) ==
    /\ job.pc = "idle"
    /\ job.scans < MaxRaceScans
    /\ job' = [job EXCEPT !.pc = "hash", !.scans = @ + 1,
                          !.useCache = useCache, !.force = force_upload]
    /\ UNCHANGED <<files, now, lastStore>>
    /\ UNCHANGED nonRaceVars

\* cli.py 157: file_hash = scanner.calculate_file_hash(file_path), one
\* f.read(4096) of its loop (vt_scanner.py 45-49); the read that returns no
\* bytes ends the loop and gives the digest of the blocks read
RaceHashFile ==
    /\ job.pc = "hash"
    /\ \E block \in {ReadBlock(job.disk, job.got, HashBlock)} :
        job' = IF block # <<>>
               THEN [job EXCEPT !.got = Joined(@, block)]
               ELSE [job EXCEPT !.key = Digest(job.got), !.got = <<>>,
                                !.pc = IF ReadsCache(job.useCache, job.force)
                                       THEN "check" ELSE "rehash"]
    /\ UNCHANGED <<files, now, lastStore>>
    /\ UNCHANGED nonRaceVars

\* cli.py 160-166: the cache lookup under file_hash
RaceCheckCache ==
    /\ job.pc = "check"
    /\ \E lk \in {GetCachedResult(files, job.key, now, DefaultMaxAgeDays, FALSE)} :
        /\ files' = lk.fs
        /\ job' = IF Truthy(lk.ret)
                  THEN [job EXCEPT !.pc = "done",
                                   !.outcome = Reported(ParseResults(lk.ret), FALSE)]
                  ELSE [job EXCEPT !.pc = "rehash"]
    /\ UNCHANGED <<now, lastStore>>
    /\ UNCHANGED nonRaceVars

\* vt_scanner.py 177-184: scan_file hashes the file itself, one
\* f.read(4096) of calculate_file_hash's loop
RaceRehash ==
    /\ job.pc = "rehash"
    /\ \E block \in {ReadBlock(job.disk, job.got, HashBlock)} :
        job' = IF block # <<>>
               THEN [job EXCEPT !.got = Joined(@, block)]
               ELSE [job EXCEPT !.looked = Digest(job.got), !.got = <<>>,
                                !.pc = IF job.force THEN "upload" ELSE "lookup"]
    /\ UNCHANGED <<files, now, lastStore>>
    /\ UNCHANGED nonRaceVars

\* vt_scanner.py 185-188: check_hash(file_hash); known says whether the
\* service holds a report for that hash
RaceLookup(known) ==
    /\ job.pc = "lookup"
    /\ \E chk \in {CheckHash(IF known
                             THEN Resp(200, ReportBody(job.looked,
                                                       RemoteStats(job.looked)))
                             ELSE NotFound)} :
        job' = IF chk.kind = "raise"
               THEN [job EXCEPT !.pc = "done", !.outcome = Failed(chk.err)]
               ELSE IF ExistingData(chk.data)
               THEN [job EXCEPT !.pc = "store", !.payload = chk.data,
                                !.about = job.looked]
               ELSE [job EXCEPT !.pc = "upload"]
    /\ UNCHANGED <<files, now, lastStore>>
    /\ UNCHANGED nonRaceVars

\* vt_scanner.py 96: upload_file opens the file
RaceOpen ==
    /\ job.pc = "upload"
    /\ job' = [job EXCEPT !.pc = "fstat"]
    /\ UNCHANGED <<files, now, lastStore>>
    /\ UNCHANGED nonRaceVars

\* vt_scanner.py 97-103: requests.post calls f.read(), which takes the size
\* the file has now to size its buffer
RaceFstat ==
    /\ job.pc = "fstat"
    /\ job' = [job EXCEPT !.pc = "send",
                          !.buf = FirstBufferSize(Size(job.disk), SmallChunk)]
    /\ UNCHANGED <<files, now, lastStore>>
    /\ UNCHANGED nonRaceVars

\* vt_scanner.py 97-109: requests.post reads the open file with f.read(),
\* one read of the file per step, each asking for the room left in the
\* buffer; after the read that returns no bytes the bytes read are posted
RaceUpload ==
    /\ job.pc = "send"
    /\ LET size == IF Offset(job.got) >= job.buf
                   THEN NewBufferSize(Offset(job.got), SmallChunk)
                   ELSE job.buf
       IN  \E block \in {ReadBlock(job.disk, job.got, size - Offset(job.got))},
              up \in {PostFile(OkPost)} :
            job' = IF block # <<>>
                   THEN [job EXCEPT !.got = Joined(@, block), !.buf = size]
                   ELSE IF up.kind = "raise"
                   THEN [job EXCEPT !.pc = "done", !.got = <<>>, !.buf = 0,
                                    !.outcome = Failed(up.err)]
                   ELSE [job EXCEPT !.pc = "poll", !.got = <<>>, !.buf = 0,
                                    !.sent = Digest(job.got)]
    /\ UNCHANGED <<files, now, lastStore>>
    /\ UNCHANGED nonRaceVars

\* vt_scanner.py 141-157: one poll of get_analysis; completed says whether
\* the service answers that the analysis of the bytes posted is complete
RacePoll(completed) ==
    /\ job.pc = "poll"
    /\ completed \/ job.queued < MaxQueuedPolls
    /\ \E decision \in {PollDecision(IF completed THEN "completed" ELSE "queued",
                                     TRUE, SleepSeconds * job.queued,
                                     DefaultMaxWait)} :
        job' = CASE decision = "return" ->
                        [job EXCEPT !.pc = "store", !.about = job.sent,
                            !.payload = AnalysisBody("a1", "completed",
                                                     RemoteStats(job.sent))]
                 [] decision = "timeout" ->
                        [job EXCEPT !.pc = "done", !.outcome = Failed(TimeoutError)]
                 [] OTHER -> [job EXCEPT !.pc = "sleep", !.queued = @ + 1]
    /\ UNCHANGED <<files, now, lastStore>>
    /\ UNCHANGED nonRaceVars

\* vt_scanner.py 160: time.sleep(5) returns
RaceSleep ==
    /\ job.pc = "sleep"
    /\ job' = [job EXCEPT !.pc = "poll"]
    /\ now' = now + SleepSeconds
    /\ UNCHANGED <<files, lastStore>>
    /\ UNCHANGED nonRaceVars

\* cli.py 170-176: parse, then store under the file_hash of line 157
RaceStore ==
    /\ job.pc = "store"
    /\ \E parsed \in {ParseResults(job.payload)} :
        IF ~parsed.ok
        THEN /\ job' = [job EXCEPT !.pc = "done", !.outcome = Failed(parsed.err)]
             /\ UNCHANGED <<files, now, lastStore>>
        ELSE IF job.useCache
        THEN /\ files' = CacheResult(files, job.key, job.payload, now, NoFault)
             /\ lastStore' = Stored(lastStore, job.key, job.payload, now, NoFault)
             /\ job' = [job EXCEPT !.pc = "done",
                                   !.outcome = Verdict(parsed, job.sent # ""),
                                   !.subject[job.key] = job.about]
             /\ UNCHANGED now
        ELSE /\ job' = [job EXCEPT !.pc = "done",
                                   !.outcome = Verdict(parsed, job.sent # "")]
             /\ UNCHANGED <<files, now, lastStore>>
    /\ UNCHANGED nonRaceVars

\* cli.py 184-219: the result is displayed and the command ends
RaceEnd ==
    /\ job.pc = "done"
    /\ job' = [NoJob EXCEPT !.disk = job.disk, !.scans = job.scans,
                            !.subject = job.subject]
    /\ UNCHANGED <<files, now, lastStore>>
    /\ UNCHANGED nonRaceVars

\* another process rewrites the file in place
Modify(content) ==
    /\ content # job.disk
    /\ job' = [job EXCEPT !.disk = content]
    /\ UNCHANGED <<files, now, lastStore>>
    /\ UNCHANGED nonRaceVars

InitRace == ScanInit /\ ParseIdle /\ CliIdle /\ ConcIdle /\ BatchIdle
    /\ ConfIdle
    /\ RaceIdle
    /\ files = [path \in RacePaths |-> NoFile]
    /\ now = 0
    /\ lastStore = [h \in RaceDigests |-> NoStore]
    /\ lastOp = NoOp

NextRace ==
    \/ \E useCache \in BOOLEAN, force_upload \in BOOLEAN :
            RaceStart(useCache, force_upload)
    \/ RaceHashFile
    \/ RaceCheckCache
    \/ RaceRehash
    \/ \E known \in BOOLEAN : RaceLookup(known)
    \/ RaceOpen
    \/ RaceFstat
    \/ RaceUpload
    \/ \E completed \in BOOLEAN : RacePoll(completed)
    \/ RaceSleep
    \/ RaceStore
    \/ RaceEnd
    \/ \E content \in Contents : Modify(content)

SpecRace == InitRace /\ [][NextRace]_vars

(* C21: within one scan of a file the hash used as the cache key is the
   hash sent to the remote lookup and the digest of the bytes uploaded, even
   when another process modifies the file during the scan; so a cache entry
   under hash h always holds a verdict for content whose digest is h. *)
C21_OneHashPerScan ==
    /\ job.looked # "" => job.looked = job.key
    /\ job.sent # "" => job.sent = job.key
    /\ \A h \in RaceDigests : files[GetCachePath(h)].exists => job.subject[h] = h

====
